---- MODULE Spec2Model ----
(***************************************************************************)
(* Task-instance lifecycle of airflow-core/src/airflow/models/             *)
(* taskinstance.py: the state transition guard                             *)
(* (_check_and_change_state_before_execution), the outcome resolution of   *)
(* _run_raw_task with its failure handling, and the retry policy.          *)
(*                                                                         *)
(* One task-instance row is shared by every process.  A process works on   *)
(* a local copy `ti` of the row; session.merge(ti) followed by             *)
(* session.commit() writes the copy back.  A row read with                 *)
(* lock_for_update=True stays locked until the reader's next commit.       *)
(***************************************************************************)
EXTENDS Integers, Sequences, FiniteSets, TLC

VARIABLES
    row,        \* the persisted task-instance row
    tr,         \* task_reschedule rows of the instance, oldest first
    log,        \* the audit log (Log rows), oldest first
    history,    \* TaskInstanceHistory: the try_ids recorded
    uuids,      \* the number of uuid7() values issued so far
    externals,  \* the number of changes made to the row from outside so far
    sibling,    \* the other task instance of the same dag run
    locked,     \* TRUE while some session holds the row lock (SELECT ... FOR UPDATE)
    now,        \* timezone.utcnow()
    callers,    \* the concurrent callers of check_and_change_state_before_execution
    worker,     \* the process inside _run_raw_task
    probe,      \* arguments and result of a pure function under evaluation
    triggers,   \* the number of Trigger rows created so far
    xcom,       \* the XCom rows of the instance: the try_id of the attempt that pushed each
    tryids,     \* the try_ids the persisted row has carried so far
    cleared     \* the last clear_task_instances call: the row before and after it

vars == <<row, tr, log, history, uuids, externals, sibling, locked, now, callers, worker, probe, triggers, xcom, tryids, cleared>>

---------------------------------------------------------------------------
\* Bounds of the model.

\* number of concurrent callers of the guard
NumCallers == 2
\* the clock runs from 1 to MaxTime
MaxTime == 2
\* try_number and max_tries of a running attempt range over 1..MaxTries
MaxTries == 2
\* task.retries ranges over 0..MaxRetries
MaxRetries == 1
\* at most MaxExternal changes are made to the row from outside
MaxExternal == 1
\* the counters given to is_eligible_to_retry range over 0..MaxCounter
MaxCounter == 4
\* the longest timeout a deferral asks for
MaxDelay == 2
\* try_number ranges over 1..MaxAttempts when the retry delay is computed
MaxAttempts == 3
\* the sha1 digest of the instance's key ranges over 0..MaxHash
MaxHash == 3
\* a mapped task group expands to 0..MaxGroupLen instances
MaxGroupLen == 2
\* an expansion inside a mapped task group has 1 or MaxExpandLen instances
MaxExpandLen == 3
\* core.max_map_length, the longest value a task map is recorded for
MaxMapLength == 2
\* at most MaxRaising pieces of user code raise during one execution
MaxRaising == 2

---------------------------------------------------------------------------
\* Values.

\* a NULL date column
NoDate == 0
\* a NULL pid column
NoPid == 0
\* a NULL duration
NoDuration == -1
\* a NULL next_method
NoMethod == "null"
\* a NULL next_kwargs
NoKwargs == "null"
\* a NULL trigger_id
NoTrigger == 0
\* a timedelta that is None
NoTimeout == -1

\* TaskInstanceState values; "none" is the NULL state
Finished == {"success", "failed", "skipped", "removed"}

TaskStates ==
    {"none", "scheduled", "queued", "running", "success", "failed", "skipped",
     "up_for_retry", "up_for_reschedule", "deferred", "restarting", "removed"}

Callers == 1..NumCallers
Dates == 1..MaxTime

\* no count: the ti_count of a task that was not expanded, no TaskMap length
NoCount == -1

\* min() of two dates or two durations
MinDate(a, b) == IF a <= b THEN a ELSE b

\* _set_duration
set_duration(ti) ==
    [ti EXCEPT !.duration =
        IF ti.end_date # NoDate /\ ti.start_date # NoDate
        THEN ti.end_date - ti.start_date
        ELSE NoDuration]

\* _clear_next_method_args
clear_next_method_args(ti) ==
    [ti EXCEPT !.next_method = NoMethod, !.next_kwargs = NoKwargs]

---------------------------------------------------------------------------
\* The persisted row and the local copies of it.

\* a row as the scheduler leaves it before an attempt
NewRow(st, nm, sd, ed, tn, mt) ==
    [state |-> st, start_date |-> sd, end_date |-> ed, queued_dttm |-> NoDate,
     duration |-> NoDuration, try_number |-> tn, max_tries |-> mt,
     hostname |-> "", pid |-> 1, next_method |-> nm,
     next_kwargs |-> IF nm = NoMethod THEN NoKwargs ELSE "{}",
     trigger_id |-> NoTrigger, trigger_timeout |-> NoDate, try_id |-> 1]

\* a task_reschedule row
TaskReschedule(try_number, start_date, end_date, reschedule_date) ==
    [try_number |-> try_number, start_date |-> start_date,
     end_date |-> end_date, reschedule_date |-> reschedule_date]

\* Tick: the wall clock advances
Tick ==
    /\ now < MaxTime
    /\ now' = now + 1
    /\ UNCHANGED <<row, tr, log, history, uuids, externals, sibling, locked, callers, worker, probe, triggers, xcom, tryids, cleared>>

---------------------------------------------------------------------------
\* State Transition Guard: _check_and_change_state_before_execution.

\* get_task_instance(lock_for_update=True): SELECT ... FOR UPDATE waits until
\* no other session holds the row lock
RowLockFree_unlocked == TRUE

RowLockFree == ~locked

\* ti.are_dependencies_met(RUNNING_DEPS - REQUEUEABLE_DEPS): a running instance
\* is never runnable; `others` is the verdict of the remaining checks
NonRequeueableDepsMet(ti, others) == ti.state # "running" /\ others

\* the start date of an admitted attempt
admit_start_date_now(ti, t, trs) == t

admit_start_date(ti, t, trs) ==
    IF ti.state = "up_for_reschedule" /\ trs # <<>>
    THEN trs[1].start_date
    ELSE IF ti.next_method # NoMethod THEN ti.start_date ELSE t

\* the branch taken when a non-requeueable dependency fails: commit, return False
deps_failed_merging(ti) ==
    [ret |-> FALSE, ti |-> ti, merge |-> TRUE, logs |-> <<>>]

deps_failed(ti) ==
    [ret |-> FALSE, ti |-> ti, merge |-> FALSE, logs |-> <<>>]

\* the branch taken when a requeueable dependency fails: state None, merge, commit
requeue_consuming_try(ti, t) ==
    [ret |-> FALSE,
     ti |-> [ti EXCEPT !.state = "none", !.queued_dttm = t,
                       !.try_number = @ + 1],
     merge |-> TRUE, logs |-> <<>>]

requeue(ti, t) ==
    [ret |-> FALSE, ti |-> [ti EXCEPT !.state = "none", !.queued_dttm = t],
     merge |-> TRUE, logs |-> <<>>]

\* the branch that admits the instance: Log row and merge unless test_mode
set_running_keeping_end_date(ti, test_mode) ==
    [ret |-> TRUE, ti |-> [ti EXCEPT !.state = "running"],
     merge |-> ~test_mode, logs |-> IF test_mode THEN <<>> ELSE <<"running">>]

set_running(ti, test_mode) ==
    [ret |-> TRUE, ti |-> [ti EXCEPT !.state = "running", !.end_date = NoDate],
     merge |-> ~test_mode, logs |-> IF test_mode THEN <<>> ELSE <<"running">>]

\* the body of _check_and_change_state_before_execution after the locked refresh
check_and_change_state(ti, mark_success, test_mode, nonReqOk, reqOk, t, trs) ==
    IF mark_success
    THEN set_running(ti, test_mode)
    ELSE IF ~NonRequeueableDepsMet(ti, nonReqOk)
    THEN deps_failed(ti)
    ELSE LET started == [ti EXCEPT !.start_date = admit_start_date(ti, t, trs)]
         IN  IF ~reqOk THEN requeue(started, t) ELSE set_running(started, test_mode)

\* a caller that has not started; `before` and `after` record the row as the
\* call found it and as the call's commit left it
IdleCaller(r) ==
    [pc |-> "idle", mark_success |-> FALSE, test_mode |-> FALSE, ret |-> FALSE,
     nonReqOk |-> FALSE, reqOk |-> FALSE, logged |-> <<>>, at |-> NoDate,
     ti |-> r, before |-> r, after |-> r]

\* ti.refresh_from_db(lock_for_update=True); ti.hostname = hostname; ti.pid = None
refresh_from_db_for_update(c) ==
    /\ callers[c].pc = "idle"
    /\ RowLockFree
    /\ callers' = [callers EXCEPT ![c] =
            [@ EXCEPT !.pc = "locked",
                      !.ti = [row EXCEPT !.hostname = "worker", !.pid = NoPid],
                      !.before = row, !.after = row]]
    /\ locked' = TRUE
    /\ UNCHANGED <<row, tr, log, history, uuids, externals, sibling, now, worker, probe, triggers, xcom, tryids, cleared>>

\* the dependency checks, the state change and session.commit(), for the
\* arguments mark_success and test_mode; a dependency set that the call does
\* not evaluate has no verdict (written FALSE)
check_and_change_state_before_execution(c) ==
    /\ callers[c].pc = "locked"
    /\ \E mark_success \in BOOLEAN, test_mode \in BOOLEAN :
       \E nonReqOk \in IF mark_success THEN {FALSE} ELSE BOOLEAN :
       \E reqOk \in IF mark_success \/ ~NonRequeueableDepsMet(callers[c].ti, nonReqOk)
                    THEN {FALSE} ELSE BOOLEAN :
        LET me == callers[c]
            out == check_and_change_state(
                       me.ti, mark_success, test_mode, nonReqOk, reqOk, now, tr)
            written == IF out.merge THEN out.ti ELSE row
        IN  /\ row' = written
            /\ log' = log \o out.logs
            /\ callers' = [callers EXCEPT ![c] =
                   [@ EXCEPT !.pc = "done", !.mark_success = mark_success,
                             !.test_mode = test_mode, !.ret = out.ret,
                             !.nonReqOk = nonReqOk, !.reqOk = reqOk,
                             !.logged = out.logs, !.at = now,
                             !.ti = out.ti, !.after = written]]
    /\ locked' = FALSE
    /\ UNCHANGED <<tr, history, uuids, externals, sibling, now, worker, probe, triggers, xcom, tryids, cleared>>

---------------------------------------------------------------------------
\* Retry Policy: _is_eligible_to_retry.  `has_task` says whether the task
\* could be loaded, `retries` is task.retries.

is_eligible_to_retry_strict(ti, has_task, retries) ==
    IF ti.state = "restarting" THEN TRUE
    ELSE IF ~has_task THEN ti.try_number < ti.max_tries
    ELSE retries # 0 /\ ti.try_number < ti.max_tries

is_eligible_to_retry(ti, has_task, retries) ==
    IF ti.state = "restarting" THEN TRUE
    ELSE IF ~has_task THEN ti.try_number <= ti.max_tries
    ELSE retries # 0 /\ ti.try_number <= ti.max_tries

---------------------------------------------------------------------------
\* Retry delay: TaskInstance.next_retry_datetime.  A timedelta is a number of
\* ticks, TicksPerSecond of them to the second, so that total_seconds() can be
\* a fraction; `ti_hash` is the sha1 digest of dag_id, task_id, logical_date
\* and try_number read as an integer.

TicksPerSecond == 2

\* MAX_RETRY_DELAY, in seconds
MAX_RETRY_DELAY == 86400

RECURSIVE Pow2(_)
Pow2(n) == IF n = 0 THEN 1 ELSE 2 * Pow2(n - 1)

\* math.ceil(a / b) for a >= 0, b > 0
CeilDiv(a, b) == (a + b - 1) \div b

\* min_backoff: the ceiling of total_seconds() * 2 ** (try_number - 1), at least 1
min_backoff(retry_delay, try_number) ==
    LET ceiled == CeilDiv(retry_delay * Pow2(try_number - 1), TicksPerSecond)
    IN  IF ceiled < 1 THEN 1 ELSE ceiled

modded_hash_unreduced(backoff_seconds, ti_hash) == backoff_seconds + ti_hash

\* modded_hash: the backoff with the jitter taken from the hash
modded_hash(backoff_seconds, ti_hash) == backoff_seconds + (ti_hash % backoff_seconds)

\* the delay added to end_date; max_retry_delay is NoTimeout when not set
next_retry_delay_uncapped(retry_delay, backoff, try_number, ti_hash, max_retry_delay) ==
    IF ~backoff THEN retry_delay
    ELSE modded_hash(min_backoff(retry_delay, try_number), ti_hash) * TicksPerSecond

next_retry_delay(retry_delay, backoff, try_number, ti_hash, max_retry_delay) ==
    IF ~backoff THEN retry_delay
    ELSE LET jittered == modded_hash(min_backoff(retry_delay, try_number), ti_hash)
             delay == MinDate(jittered, MAX_RETRY_DELAY) * TicksPerSecond
         IN  IF max_retry_delay # NoTimeout /\ max_retry_delay # 0
             THEN MinDate(max_retry_delay, delay)
             ELSE delay

\* the instances and tasks next_retry_datetime is evaluated on
DelayProbes ==
    [retry_delay : {0, 1, TicksPerSecond, 5, MAX_RETRY_DELAY * TicksPerSecond},
     backoff : BOOLEAN, try_number : 1..MaxAttempts, ti_hash : 0..MaxHash,
     max_retry_delay : {NoTimeout, 0, 1, 4}, end_date : {1},
     evaluated : {FALSE}, result : {NoDate}, min_backoff : {0}, modded_hash : {0}]

\* ti.next_retry_datetime() on the probe
next_retry_datetime ==
    /\ ~probe.evaluated
    /\ probe' = [probe EXCEPT
           !.evaluated = TRUE,
           !.min_backoff = IF probe.backoff
                           THEN min_backoff(probe.retry_delay, probe.try_number)
                           ELSE @,
           !.modded_hash = IF probe.backoff
                           THEN modded_hash(min_backoff(probe.retry_delay, probe.try_number),
                                            probe.ti_hash)
                           ELSE @,
           !.result = probe.end_date +
               next_retry_delay(probe.retry_delay, probe.backoff, probe.try_number,
                                probe.ti_hash, probe.max_retry_delay)]
    /\ UNCHANGED <<row, tr, log, history, uuids, externals, sibling, locked, now,
                   callers, worker, triggers, xcom, tryids, cleared>>

---------------------------------------------------------------------------
\* Changes made to the row by other processes while an attempt runs.

\* no clear_task_instances call was made yet
NotCleared ==
    [done |-> FALSE, task_found |-> FALSE, retries |-> 0,
     before |-> NewRow("none", NoMethod, NoDate, NoDate, 0, 0),
     after |-> NewRow("none", NoMethod, NoDate, NoDate, 0, 0),
     tryids_before |-> {}, tr_before |-> <<>>, tr |-> <<>>,
     xcom_before |-> {}, xcom |-> {}]

\* uuid7(): a value never issued before
uuid7 == uuids + 1

\* TaskInstance._set_state: the assignments made when the state changes
set_state(ti, state, t) ==
    LET started == [ti EXCEPT !.state = state,
                              !.start_date = IF @ # NoDate THEN @ ELSE t]
    IN  IF state \in Finished \/ state = "up_for_retry"
        THEN set_duration([started EXCEPT !.end_date = IF @ # NoDate THEN @ ELSE t])
        ELSE started

\* the instance is marked success or failed from outside (set_state, then the
\* caller's commit)
set_state_externally(state) ==
    /\ worker.pc # "done"
    /\ externals < MaxExternal
    /\ ~locked
    /\ row.state # state
    /\ row' = set_state(row, state, now)
    /\ externals' = externals + 1
    /\ UNCHANGED <<tr, log, history, uuids, sibling, locked, now, callers, worker, probe, triggers, xcom, tryids, cleared>>

\* clear_task_instances on the instance, for a task of `retries` retries that
\* is found in the dag (task_found) or not
clear_task_instance_keeping_max_tries(ti, task_found, retries) ==
    IF ti.state = "running"
    THEN [ti EXCEPT !.try_id = uuid7, !.state = "restarting"]
    ELSE clear_next_method_args([ti EXCEPT !.try_id = uuid7, !.state = "none"])

clear_task_instance(ti, task_found, retries) ==
    IF ti.state = "running"
    THEN [ti EXCEPT !.try_id = uuid7, !.state = "restarting"]
    ELSE clear_next_method_args(
             [ti EXCEPT !.try_id = uuid7, !.state = "none",
                        !.max_tries = IF task_found
                                      THEN ti.try_number + retries
                                      ELSE IF @ >= ti.try_number THEN @ ELSE ti.try_number])

clear_task_instances ==
    /\ worker.pc # "done"
    /\ externals < MaxExternal
    /\ ~locked
    /\ history' = history \cup {row.try_id}
    /\ uuids' = uuids + 1
    /\ tr' = <<>>
    /\ externals' = externals + 1
    /\ UNCHANGED <<log, sibling, locked, now, callers, worker, probe, triggers, xcom>>
    /\ \E task_found \in BOOLEAN :
        /\ row' = clear_task_instance(row, task_found, worker.retries)
        /\ cleared' = [done |-> TRUE, task_found |-> task_found,
                       retries |-> worker.retries, before |-> row, after |-> row',
                       tryids_before |-> tryids, tr_before |-> tr, tr |-> tr',
                       xcom_before |-> xcom, xcom |-> xcom']
    /\ tryids' = tryids \cup {row'.try_id}

---------------------------------------------------------------------------
\* Outcome Resolver: _run_raw_task and the failure handling it calls.

\* the exceptions of the task body that reach the failure path:
\*   fail_permanent   AirflowFailException, AirflowSensorTimeout
\*   fail_airflow     AirflowTaskTimeout, AirflowException, AirflowTaskTerminated
\*   system_exit      SystemExit with an error code
\*   other_exception  any other BaseException
\* the callbacks of a task, two to a list
Callbacks ==
    [on_success_callback |-> <<"on_success_callback[0]", "on_success_callback[1]">>,
     on_skipped_callback |-> <<"on_skipped_callback[0]", "on_skipped_callback[1]">>,
     on_failure_callback |-> <<"on_failure_callback[0]", "on_failure_callback[1]">>,
     on_retry_callback |-> <<"on_retry_callback[0]", "on_retry_callback[1]">>]

run_finished_callback_until_error(callbacks, raising) ==
    IF callbacks[1] \in raising
    THEN [trace |-> <<callbacks[1]>>, raised |-> TRUE]
    ELSE IF callbacks[2] \in raising
    THEN [trace |-> callbacks, raised |-> TRUE]
    ELSE [trace |-> callbacks, raised |-> FALSE]

\* _run_finished_callback: each callback in turn, an Exception logged
run_finished_callback(callbacks, raising) ==
    LET called(i) == IF callbacks[i] \in raising
                     THEN <<callbacks[i], "log.exception">>
                     ELSE <<callbacks[i]>>
    IN  [trace |-> called(1) \o called(2), raised |-> FALSE]

listener_hook_not_called(name, raising) == <<>>

\* a listener hook called inside try / except Exception: log.exception
listener_hook(name, raising) ==
    IF name \in raising THEN <<name, "log.exception">> ELSE <<name>>

\* an exception of a callback leaves _run_raw_task: nothing more is done
crashed(trace) ==
    [worker EXCEPT !.pc = "crashed", !.called = @ \o trace]

FailureKinds == {"fail_permanent", "fail_airflow", "system_exit", "other_exception"}

\* save_to_db (session.merge(ti), commit) by a worker whose copy of the row may
\* be stale: the UPDATE writes the columns the worker assigned, and try_id is
\* among them only when the worker issued a new one
merged(ti, new_try_id) == [ti EXCEPT !.try_id = IF new_try_id THEN @ ELSE row.try_id]

\* _execute_task_with_callbacks: clear_xcom_data unless the attempt resumes
\* from a deferral
clear_xcom_data_never(entries, ti) == entries

clear_xcom_data(entries, ti) == IF ti.next_method # NoMethod THEN entries ELSE {}

\* ti.hostname = get_hostname(); ti.pid = os.getpid(); save_to_db unless
\* test_mode; actual_start_date; then _execute_task_with_callbacks begins and
\* clears the XCom rows unless the attempt resumes from a deferral
run_raw_task_start ==
    /\ worker.pc = "idle"
    /\ ~locked
    /\ LET ti == [row EXCEPT !.hostname = "worker", !.pid = 1]
       IN  /\ worker' = [worker EXCEPT !.pc = "executing", !.ti = ti,
                                       !.actual_start_date = now,
                                       !.try_id = ti.try_id,
                                       !.resumed = ti.next_method # NoMethod]
           /\ row' = IF worker.test_mode THEN row ELSE ti
           /\ xcom' = clear_xcom_data(xcom, ti)
    /\ UNCHANGED <<tr, log, history, uuids, externals, sibling, locked, now, callers, probe, triggers, tryids, cleared>>

\* _execute_task_with_callbacks raises; the except clause that catches it
\* decides how handle_failure is called
execute_task_raises(kind) ==
    /\ worker.pc = "executing"
    /\ worker' = [worker EXCEPT
           !.outcome = kind,
           !.force_fail = (kind = "fail_permanent"),
           !.pc = IF kind = "fail_airflow" THEN "raised" ELSE "handle_failure"]
    /\ UNCHANGED <<row, tr, log, history, uuids, externals, sibling, locked, now, callers, probe, triggers, xcom, tryids, cleared>>

\* `ti.state in State.finished` after the locked refresh: the state was set
\* from outside while the attempt ran
externally_finished_ignored(ti) == FALSE

externally_finished(ti) == ti.state \in Finished

\* except (AirflowTaskTimeout, AirflowException, AirflowTaskTerminated):
\* refresh_from_db(lock_for_update=True) unless test_mode; a finished instance
\* is saved as it is and the failure dropped, otherwise handle_failure follows
catch_airflow_failure ==
    /\ worker.pc = "raised"
    /\ worker.test_mode \/ ~locked
    /\ LET ti == IF worker.test_mode THEN worker.ti ELSE row
       IN  IF externally_finished(ti)
           THEN /\ row' = merged(clear_next_method_args(ti), FALSE)
                /\ worker' = [worker EXCEPT !.pc = "done", !.ti = row', !.found = row,
                                            !.seen = ti, !.after = row']
                /\ UNCHANGED locked
           ELSE /\ worker' = [worker EXCEPT !.pc = "handle_failure", !.ti = ti,
                                            !.found = row]
                /\ locked' = ~worker.test_mode
                /\ UNCHANGED row
    /\ UNCHANGED <<tr, log, history, uuids, externals, sibling, now, callers, probe, triggers, xcom, tryids, cleared>>

\* the state chosen by fetch_handle_failure_context
failure_state_fail_fast_forces(ti, force_fail, fail_fast, has_task, retries) ==
    IF force_fail \/ fail_fast \/ ~is_eligible_to_retry(ti, has_task, retries)
    THEN "failed"
    ELSE "up_for_retry"

failure_state_ignoring_force_fail(ti, force_fail, fail_fast, has_task, retries) ==
    IF ~is_eligible_to_retry(ti, has_task, retries) THEN "failed" ELSE "up_for_retry"

failure_state(ti, force_fail, fail_fast, has_task, retries) ==
    IF force_fail \/ ~is_eligible_to_retry(ti, has_task, retries)
    THEN "failed"
    ELSE "up_for_retry"

\* _stop_remaining_tasks on the other instance of the run: "failed" by
\* ti.error (which commits), "skipped" by set_state (merged, not yet committed)
stop_remaining_task_teardown_too(sib) ==
    IF sib.state \in {"success", "failed"}
    THEN sib
    ELSE [sib EXCEPT !.state = IF sib.state = "running" THEN "failed" ELSE "skipped"]

stop_remaining_task(sib) ==
    IF sib.state \in {"success", "failed"} \/ sib.is_teardown
    THEN sib
    ELSE [sib EXCEPT !.state = IF sib.state = "running" THEN "failed" ELSE "skipped"]

\* TaskInstance.error on a running instance of the run: session.merge and
\* session.commit, which commits what the session of the failure holds so far
error_commits_on_any_failure(stop, found, stopped) == TRUE

error_commits(stop, found, stopped) ==
    stop /\ found.state = "running" /\ stopped.state = "failed"

\* fetch_handle_failure_context: refresh_from_db unless test_mode, end_date and
\* duration, Log row, the new state, history record and new try_id before a
\* retry of a running instance, fail-fast, the on_task_instance_failed hook
fetch_handle_failure_context ==
    /\ worker.pc = "handle_failure"
    /\ LET seen == IF worker.test_mode THEN worker.ti ELSE row
           ended == clear_next_method_args(set_duration([seen EXCEPT !.end_date = now]))
           state == failure_state(ended, worker.force_fail, worker.fail_fast,
                                  TRUE, worker.retries)
           archive == state = "up_for_retry" /\ ended.state = "running"
           ti == [ended EXCEPT !.state = state,
                               !.try_id = IF archive THEN uuid7 ELSE @]
           stop == state = "failed" /\ worker.fail_fast
           sib == IF stop THEN stop_remaining_task(sibling) ELSE sibling
           commits == error_commits(stop, sibling, sib)
           logs == IF worker.test_mode THEN <<>> ELSE <<"failed">>
       IN  /\ worker' = [worker EXCEPT
                  !.pc = "fetched", !.ti = ti, !.seen = seen, !.at = now,
                  !.sibling_found = sibling,
                  !.found = IF worker.outcome = "fail_airflow" THEN @ ELSE row,
                  !.pending = [log |-> IF commits THEN <<>> ELSE logs,
                               history |-> IF archive THEN {ended.try_id} ELSE {},
                               sibling |-> sib],
                  !.called = @ \o listener_hook("on_task_instance_failed", worker.raising),
                  !.events = @ \o <<"on_task_instance_failed">>]
           /\ uuids' = IF archive THEN uuids + 1 ELSE uuids
           /\ sibling' = IF commits THEN sib ELSE sibling
           /\ log' = IF commits THEN log \o logs ELSE log
           /\ locked' = IF commits THEN FALSE ELSE locked
    /\ UNCHANGED <<row, tr, history, externals, now, callers, probe, triggers, xcom, tryids, cleared>>

\* _handle_failure after the context is fetched: the email alert and the
\* on_failure / on_retry callbacks
run_failure_callbacks ==
    /\ worker.pc = "fetched"
    /\ LET ran == run_finished_callback(
                      IF worker.ti.state = "failed"
                      THEN Callbacks.on_failure_callback
                      ELSE Callbacks.on_retry_callback, worker.raising)
       IN  worker' = IF ran.raised THEN crashed(ran.trace)
                     ELSE [worker EXCEPT
                              !.pc = "notified",
                              !.called = @ \o ran.trace,
                              !.events = @ \o <<"email_alert",
                                  IF worker.ti.state = "failed"
                                  THEN "on_failure_callback" ELSE "on_retry_callback">>]
    /\ UNCHANGED <<row, tr, log, history, uuids, externals, sibling, locked, now, callers, probe, triggers, xcom, tryids, cleared>>

\* _handle_failure's save_to_db unless test_mode: merge and commit; in test
\* mode the exception leaves the session uncommitted
save_failure ==
    /\ worker.pc = "notified"
    /\ IF worker.test_mode
       THEN UNCHANGED <<row, log, history, sibling>>
       ELSE /\ row' = merged(worker.ti, worker.pending.history # {})
            /\ log' = log \o worker.pending.log
            /\ history' = history \cup worker.pending.history
            /\ sibling' = worker.pending.sibling
    /\ locked' = FALSE
    /\ worker' = [worker EXCEPT !.pc = "done", !.after = row']
    /\ tryids' = tryids \cup {row'.try_id}
    /\ UNCHANGED <<tr, uuids, externals, now, callers, probe, triggers, xcom, cleared>>

---------------------------------------------------------------------------
\* Outcome Resolver: the outcomes of the task body that are not failures.

\* ti.refresh_from_db(lock_for_update=True, keep_local_changes=True) unless
\* test_mode: the worker saved its local changes when it started, so every
\* attribute is taken from the row
refresh_keeping_local_changes(ti, test_mode) == IF test_mode THEN ti ELSE row

\* the tail of _run_raw_task ("Recording SKIPPED or SUCCESS")
record_finish_keeping_next_method(ti, t) ==
    set_duration([ti EXCEPT !.end_date = t])

record_finish(ti, t) ==
    set_duration([clear_next_method_args(ti) EXCEPT !.end_date = t])

\* the persisted row while the on_success callbacks run: they are run before
\* db committing
after_db_committing(persisted, ti) == ti

before_db_committing(persisted, ti) == persisted

\* the task body returns: the locked refresh unless test_mode, state SUCCESS,
\* the tail up to the on_success callbacks; `pushes` says whether the body
\* returned a value that is pushed as an XCom (do_xcom_push and a result that
\* is not None)
execute_task_returns ==
    /\ worker.pc = "executing"
    /\ worker.test_mode \/ ~locked
    /\ \E pushes \in BOOLEAN :
        LET seen == refresh_keeping_local_changes(worker.ti, worker.test_mode)
            ti == record_finish([seen EXCEPT !.state = "success"], now)
            ran == run_finished_callback(Callbacks.on_success_callback, worker.raising)
        IN  /\ worker' = IF ran.raised THEN crashed(ran.trace)
                   ELSE [worker EXCEPT
                   !.pc = "succeeded", !.outcome = "success", !.ti = ti,
                   !.found = row, !.seen = seen, !.at = now,
                   !.called = @ \o ran.trace,
                   !.events = @ \o <<"on_success_callback">>]
            /\ row' = IF worker.test_mode THEN row ELSE before_db_committing(row, ti)
            /\ locked' = (~worker.test_mode /\ ~ran.raised)
            /\ xcom' = IF pushes THEN xcom \cup {worker.try_id} ELSE xcom
    /\ tryids' = tryids \cup {row'.try_id}
    /\ UNCHANGED <<tr, log, history, uuids, externals, sibling, now, callers, probe, triggers, cleared>>

\* the tail of _run_raw_task after the on_success callbacks, unless test_mode:
\* the Log row, save_to_db, the on_task_instance_success hook
save_success ==
    /\ worker.pc = "succeeded"
    /\ worker' = [worker EXCEPT
           !.pc = "done",
           !.after = IF worker.test_mode THEN row ELSE worker.ti,
           !.called = @ \o IF worker.test_mode THEN <<>>
                           ELSE listener_hook("on_task_instance_success", worker.raising),
           !.events = @ \o IF worker.test_mode THEN <<>>
                           ELSE <<"save_to_db", "on_task_instance_success">>]
    /\ row' = IF worker.test_mode THEN row ELSE worker.ti
    /\ log' = IF worker.test_mode THEN log ELSE Append(log, "success")
    /\ locked' = FALSE
    /\ tryids' = tryids \cup {row'.try_id}
    /\ UNCHANGED <<tr, history, uuids, externals, sibling, now, callers, probe, triggers, xcom, cleared>>

\* except AirflowSkipException: state SKIPPED, the on_skipped callbacks,
\* save_to_db; then the tail, which saves again unless test_mode
skipped_as_failed(ti) == [ti EXCEPT !.state = "failed"]

skipped(ti) == [ti EXCEPT !.state = "skipped"]

execute_task_skips ==
    /\ worker.pc = "executing"
    /\ worker.test_mode \/ ~locked
    /\ LET seen == refresh_keeping_local_changes(worker.ti, worker.test_mode)
           saved == merged(skipped(seen), FALSE)
           ti == record_finish(saved, now)
           ran == run_finished_callback(Callbacks.on_skipped_callback, worker.raising)
       IN  /\ worker' = IF ran.raised THEN crashed(ran.trace)
                  ELSE [worker EXCEPT
                  !.pc = "done", !.outcome = "skip", !.ti = ti,
                  !.found = row, !.seen = seen, !.at = now,
                  !.after = IF worker.test_mode THEN saved ELSE ti,
                  !.called = @ \o ran.trace,
                  !.events = @ \o <<"on_skipped_callback", "save_to_db">> \o
                      IF worker.test_mode THEN <<>> ELSE <<"save_to_db">>]
           /\ row' = IF ran.raised THEN row ELSE IF worker.test_mode THEN saved ELSE ti
           /\ log' = IF worker.test_mode \/ ran.raised THEN log ELSE Append(log, "skipped")
    /\ tryids' = tryids \cup {row'.try_id}
    /\ UNCHANGED <<tr, history, uuids, externals, sibling, locked, now, callers, probe, triggers, xcom, cleared>>

\* no deferral or reschedule was requested
NoRequest ==
    [method |-> NoMethod, kwargs |-> NoKwargs, timeout |-> NoTimeout,
     execution_timeout |-> NoTimeout, reschedule_date |-> NoDate]

\* _defer_task: trigger_timeout from the timeout of the deferral and the
\* task's execution_timeout (a timedelta of zero is falsy)
trigger_timeout_explicit_only(ti, timeout, execution_timeout, t) ==
    IF timeout # NoTimeout THEN t + timeout ELSE NoDate

trigger_timeout(ti, timeout, execution_timeout, t) ==
    LET explicit == IF timeout # NoTimeout THEN t + timeout ELSE NoDate
    IN  IF execution_timeout # NoTimeout /\ execution_timeout # 0
        THEN IF explicit # NoDate
             THEN MinDate(ti.start_date + execution_timeout, explicit)
             ELSE ti.start_date + execution_timeout
        ELSE explicit

\* _defer_task: the instance as the deferral request leaves it
defer_task(ti, request, trigger_id, t) ==
    [ti EXCEPT !.state = "deferred",
               !.trigger_id = trigger_id,
               !.next_method = request.method,
               !.next_kwargs = IF request.kwargs = NoKwargs THEN "{}" ELSE request.kwargs,
               !.trigger_timeout = trigger_timeout(ti, request.timeout,
                                                   request.execution_timeout, t)]

\* the deferrals a task body requests: method, kwargs, timeout, and the
\* execution_timeout of the task
DeferRequests ==
    {[method |-> "execute_complete", kwargs |-> k, timeout |-> to,
      execution_timeout |-> et, reschedule_date |-> NoDate] :
        k \in {NoKwargs, "kwargs"},
        to \in {NoTimeout, 0, MaxDelay},
        et \in {NoTimeout, 0, 1}}

\* except TaskDeferred: re-raised when raise_on_defer, otherwise
\* ti.defer_task: Trigger row, the deferral fields, a Log row in test mode
\* only, merge and commit; return TaskReturnCode.DEFERRED
execute_task_defers ==
    /\ worker.pc = "executing"
    /\ ~locked
    /\ \E raise_on_defer \in BOOLEAN :
       \E request \in IF raise_on_defer THEN {NoRequest} ELSE DeferRequests :
        IF raise_on_defer
        THEN /\ worker' = [worker EXCEPT !.pc = "done", !.outcome = "defer_raised",
                                         !.found = row, !.after = row]
             /\ UNCHANGED <<row, log, triggers>>
        ELSE LET ti == defer_task(worker.ti, request, triggers + 1, now)
             IN  /\ worker' = [worker EXCEPT
                        !.pc = "done", !.outcome = "defer", !.ti = ti,
                        !.found = row, !.seen = worker.ti, !.after = merged(ti, FALSE),
                        !.request = request, !.ret = "DEFERRED",
                        !.at = now]
                 /\ row' = merged(ti, FALSE)
                 /\ triggers' = triggers + 1
                 /\ log' = IF worker.test_mode THEN Append(log, "deferred") ELSE log
    /\ tryids' = tryids \cup {row'.try_id}
    /\ UNCHANGED <<tr, history, uuids, externals, sibling, locked, now, callers, probe, xcom, cleared>>

\* _handle_reschedule up to its first commit: nothing in test mode; otherwise
\* refresh_from_db, end_date, duration, state UP_FOR_RESCHEDULE,
\* clear_next_method_args, merge, commit
reschedule_consuming_try(ti, t) ==
    clear_next_method_args(
        [set_duration([ti EXCEPT !.end_date = t]) EXCEPT
            !.state = "up_for_reschedule", !.try_number = @ + 1])

reschedule(ti, t) ==
    clear_next_method_args(
        [set_duration([ti EXCEPT !.end_date = t]) EXCEPT !.state = "up_for_reschedule"])

\* session.merge(ti); session.commit(): the row as the first transaction of
\* _handle_reschedule leaves it
commit_state_update_with_record(persisted, ti) == persisted

commit_state_update(persisted, ti) == ti

handle_reschedule ==
    /\ worker.pc = "executing"
    /\ ~locked
    /\ \E ahead \in 0..1 :
        LET request == [NoRequest EXCEPT !.reschedule_date = now + ahead]
        IN  IF worker.test_mode
            THEN /\ worker' = [worker EXCEPT !.pc = "done", !.outcome = "reschedule",
                                             !.request = request, !.seen = worker.ti,
                                             !.found = row, !.after = row, !.at = now]
                 /\ UNCHANGED row
            ELSE LET ti == reschedule(row, now)
                 IN  /\ worker' = [worker EXCEPT
                            !.pc = "rescheduled", !.outcome = "reschedule", !.ti = ti,
                            !.request = request,
                            !.found = row, !.seen = row, !.after = ti, !.at = now]
                     /\ row' = commit_state_update(row, ti)
    /\ tryids' = tryids \cup {row'.try_id}
    /\ UNCHANGED <<tr, log, history, uuids, externals, sibling, locked, now, callers, probe, triggers, xcom, cleared>>

\* _handle_reschedule's second commit: the TaskReschedule row
record_reschedule ==
    /\ worker.pc = "rescheduled"
    /\ tr' = Append(tr, TaskReschedule(worker.ti.try_number, worker.actual_start_date,
                                       worker.ti.end_date, worker.request.reschedule_date))
    /\ worker' = [worker EXCEPT !.pc = "done"]
    /\ UNCHANGED <<row, log, history, uuids, externals, sibling, locked, now, callers, probe, triggers, xcom, tryids, cleared>>

\* _handle_reschedule raises after its first commit (the TaskReschedule row
\* cannot be added or committed): the session of the record is rolled back and
\* the exception leaves _run_raw_task from inside the except clause
reschedule_crashes ==
    /\ worker.pc = "rescheduled"
    /\ worker' = [worker EXCEPT !.pc = "crashed"]
    /\ UNCHANGED <<row, tr, log, history, uuids, externals, sibling, locked, now, callers, probe, triggers, xcom, tryids, cleared>>

\* the rows the guard is called on: queued for a first attempt, queued for a
\* retry, queued to resume from a deferral, waiting for a reschedule, finished
GuardRows ==
    {NewRow("queued", NoMethod, NoDate, NoDate, 1, 1),
     NewRow("queued", NoMethod, 1, 1, 1, 1),
     NewRow("queued", "execute_complete", 1, NoDate, 1, 1),
     NewRow("up_for_reschedule", NoMethod, 1, 1, 1, 1),
     NewRow("success", NoMethod, 1, 1, 1, 1)}

NoSibling == [state |-> "none", is_teardown |-> FALSE]

\* a process about to call _run_raw_task; `found` is the persisted row when
\* the except clause was entered, `seen` the instance as the failure path read
\* it, `after` the row as the last commit of the call left it
IdleWorker(r, test_mode, fail_fast, retries) ==
    [pc |-> "idle", test_mode |-> test_mode, fail_fast |-> fail_fast,
     retries |-> retries, outcome |-> "", force_fail |-> FALSE, ti |-> r,
     found |-> r, seen |-> r, after |-> r, events |-> <<>>,
     ret |-> "None", actual_start_date |-> NoDate, request |-> NoRequest,
     at |-> NoDate, sibling_found |-> NoSibling, try_id |-> r.try_id,
     resumed |-> FALSE, raising |-> {}, called |-> <<>>,
     pending |-> [log |-> <<>>, history |-> {}, sibling |-> NoSibling]]

\* the arguments of an is_eligible_to_retry call and its result
Probes ==
    [state : TaskStates, try_number : 0..MaxCounter, max_tries : 0..MaxCounter,
     has_task : BOOLEAN, retries : 0..MaxRetries, evaluated : {FALSE}, result : {FALSE}]

NoProbe ==
    [state |-> "none", try_number |-> 0, max_tries |-> 0, has_task |-> FALSE,
     retries |-> 0, evaluated |-> FALSE, result |-> FALSE]


Init ==
    /\ row \in GuardRows
    /\ tr \in {<<>>, <<TaskReschedule(1, 1, 1, 1)>>}
    /\ log = <<>>
    /\ history = {}
    /\ uuids = 1
    /\ externals = 0
    /\ sibling = NoSibling
    /\ locked = FALSE
    /\ now = 1
    /\ callers = [c \in Callers |-> IdleCaller(row)]
    /\ worker = IdleWorker(row, FALSE, FALSE, 0)
    /\ probe = NoProbe
    /\ triggers = 0
    /\ xcom = {}
    /\ tryids = {row.try_id}
    /\ cleared = NotCleared

Next ==
    \/ Tick
    \/ \E c \in Callers : refresh_from_db_for_update(c)
    \/ \E c \in Callers : check_and_change_state_before_execution(c)

Spec == Init /\ [][Next]_vars

\* the rows _run_raw_task is called on: admitted to running at time 1
RunningRows ==
    {NewRow("running", NoMethod, 1, NoDate, tn, mt) :
        tn \in 1..MaxTries, mt \in 1..MaxTries}

Siblings ==
    {[state |-> "running", is_teardown |-> FALSE],
     [state |-> "queued", is_teardown |-> FALSE],
     [state |-> "running", is_teardown |-> TRUE],
     [state |-> "success", is_teardown |-> FALSE],
     [state |-> "removed", is_teardown |-> FALSE]}

RunInit ==
    /\ row \in RunningRows
    /\ tr = <<>>
    /\ log = <<"running">>
    /\ history = {}
    /\ uuids = 1
    /\ externals = 0
    /\ sibling \in Siblings
    /\ locked = FALSE
    /\ now = 1
    /\ callers = [c \in Callers |-> IdleCaller(row)]
    /\ \E test_mode \in BOOLEAN, fail_fast \in BOOLEAN, retries \in 0..MaxRetries :
        worker = IdleWorker(row, test_mode, fail_fast, retries)
    /\ probe = NoProbe
    /\ triggers = 0
    /\ xcom = {}
    /\ tryids = {row.try_id}
    /\ cleared = NotCleared

RunNext ==
    \/ Tick
    \/ \E state \in {"success", "failed"} : set_state_externally(state)
    \/ clear_task_instances
    \/ run_raw_task_start
    \/ \E kind \in FailureKinds : execute_task_raises(kind)
    \/ catch_airflow_failure
    \/ fetch_handle_failure_context
    \/ run_failure_callbacks
    \/ save_failure

RunSpec == RunInit /\ [][RunNext]_vars

\* the rows of attempts that run: a fresh attempt, and one resumed from a
\* deferral (next_method set, trigger_id and trigger_timeout already cleared)
ResumedRows ==
    {NewRow("running", "execute_complete", 1, NoDate, tn, tn) : tn \in 1..MaxTries}

\* every outcome of the task body, in a run without fail_fast
OutcomeInit ==
    /\ row \in RunningRows \cup ResumedRows
    /\ tr = <<>>
    /\ log = <<"running">>
    /\ history = {}
    /\ uuids = 1
    /\ externals = 0
    /\ sibling = NoSibling
    /\ locked = FALSE
    /\ now = 1
    /\ callers = [c \in Callers |-> IdleCaller(row)]
    /\ \E test_mode \in BOOLEAN, retries \in 0..MaxRetries :
        worker = IdleWorker(row, test_mode, FALSE, retries)
    /\ probe = NoProbe
    /\ triggers = 0
    /\ xcom = {}
    /\ tryids = {row.try_id}
    /\ cleared = NotCleared

OutcomeNext ==
    \/ RunNext
    \/ execute_task_returns
    \/ save_success
    \/ execute_task_skips
    \/ execute_task_defers
    \/ handle_reschedule
    \/ record_reschedule

OutcomeSpec == OutcomeInit /\ [][OutcomeNext]_vars

\* an attempt that asks for a reschedule, while other processes change the row
RescheduleNext ==
    \/ Tick
    \/ \E state \in {"success", "failed"} : set_state_externally(state)
    \/ clear_task_instances
    \/ run_raw_task_start
    \/ handle_reschedule
    \/ record_reschedule
    \/ reschedule_crashes

RescheduleSpec == OutcomeInit /\ [][RescheduleNext]_vars

\* the rows clear_task_instances is called on: a running attempt, a failed one
\* out of tries, a deferred one, one waiting for a reschedule, a successful one
ClearRows ==
    {NewRow("running", NoMethod, 1, NoDate, 1, 1),
     NewRow("failed", NoMethod, 1, 1, 2, 1),
     NewRow("deferred", "execute_complete", 1, NoDate, 1, 1),
     NewRow("up_for_reschedule", NoMethod, 1, 1, 1, 1),
     NewRow("success", NoMethod, 1, 1, 1, 1)}

\* an instance with reschedule records and results of its attempt so far
ClearInit ==
    /\ row \in ClearRows
    /\ tr \in {<<>>, <<TaskReschedule(1, 1, 1, 1)>>}
    /\ log = <<>>
    /\ history = {}
    /\ uuids = 1
    /\ externals = 0
    /\ sibling = NoSibling
    /\ locked = FALSE
    /\ now = 1
    /\ callers = [c \in Callers |-> IdleCaller(row)]
    /\ \E retries \in 0..MaxRetries : worker = IdleWorker(row, FALSE, FALSE, retries)
    /\ probe = NoProbe
    /\ triggers = 0
    /\ xcom \in {{}, {row.try_id}}
    /\ tryids = {row.try_id}
    /\ cleared = NotCleared

\* TaskInstance.run, `if not res: return`: whether _run_raw_task is called
run_proceeds_whatever_res(res) == TRUE

run_proceeds(res) == res

\* TaskInstance.run: _run_raw_task follows an admission by the guard, with the
\* same test_mode
run ==
    /\ callers[1].pc = "done" /\ run_proceeds(callers[1].ret)
    /\ callers[1].test_mode = worker.test_mode
    /\ run_raw_task_start

\* TaskInstance.run returns without calling _run_raw_task
run_returns ==
    /\ callers[1].pc = "done" /\ ~run_proceeds(callers[1].ret)
    /\ worker.pc = "idle"
    /\ worker' = [worker EXCEPT !.pc = "returned"]
    /\ UNCHANGED <<row, tr, log, history, uuids, externals, sibling, locked, now, callers, probe, triggers, xcom, tryids, cleared>>

\* _run_raw_task, `if not mark_success:` _execute_task_with_callbacks runs and
\* the except clauses or the tail resolve its outcome
execute_task_with_callbacks ==
    /\ ~callers[1].mark_success
    /\ \/ \E kind \in FailureKinds : execute_task_raises(kind)
       \/ execute_task_returns
       \/ execute_task_skips
       \/ execute_task_defers
       \/ handle_reschedule

\* _run_raw_task with mark_success: the task body is not run and the tail
\* records success
mark_success_recorded ==
    /\ callers[1].mark_success
    /\ execute_task_returns
    /\ xcom' = xcom

\* TaskInstance.run on an instance the scheduler queued
TaskRunInit ==
    /\ row \in GuardRows
    /\ tr \in {<<>>, <<TaskReschedule(1, 1, 1, 1)>>}
    /\ log = <<>>
    /\ history = {}
    /\ uuids = 1
    /\ externals = 0
    /\ sibling = NoSibling
    /\ locked = FALSE
    /\ now = 1
    /\ callers = [c \in Callers |-> IdleCaller(row)]
    /\ \E test_mode \in BOOLEAN, retries \in 0..MaxRetries :
        worker = IdleWorker(row, test_mode, FALSE, retries)
    /\ probe = NoProbe
    /\ triggers = 0
    /\ xcom = {}
    /\ tryids = {row.try_id}
    /\ cleared = NotCleared

TaskRunNext ==
    \/ Tick
    \/ refresh_from_db_for_update(1)
    \/ check_and_change_state_before_execution(1)
    \/ run
    \/ run_returns
    \/ execute_task_with_callbacks
    \/ mark_success_recorded
    \/ save_success
    \/ catch_airflow_failure
    \/ fetch_handle_failure_context
    \/ run_failure_callbacks
    \/ save_failure
    \/ record_reschedule

TaskRunSpec == TaskRunInit /\ [][TaskRunNext]_vars

\* a new task instance: try_number 0, max_tries = task.retries
CreatedRows ==
    {NewRow("none", NoMethod, NoDate, NoDate, 0, retries) : retries \in 0..MaxRetries}

\* the scheduler queues an attempt of an instance that has no state yet or is
\* up for retry: try_number is incremented by one and a worker process is
\* started for it
schedule_attempt ==
    /\ row.state \in {"none", "up_for_retry"}
    /\ worker.pc \in {"idle", "done"}
    /\ row.try_number < MaxAttempts
    /\ row' = [row EXCEPT !.state = "queued", !.try_number = @ + 1, !.queued_dttm = now]
    /\ worker' = IdleWorker(row', FALSE, FALSE, worker.retries)
    /\ UNCHANGED <<tr, log, history, uuids, externals, sibling, locked, now, callers, probe, triggers, xcom, tryids, cleared>>

\* check_and_change_state_before_execution by the only caller, with every
\* dependency met: the queued attempt is admitted to running
admit_attempt ==
    /\ row.state = "queued"
    /\ worker.pc = "idle"
    /\ LET out == check_and_change_state(
                      [row EXCEPT !.hostname = "worker", !.pid = NoPid],
                      FALSE, FALSE, TRUE, TRUE, now, tr)
       IN  /\ row' = out.ti
           /\ log' = log \o out.logs
    /\ UNCHANGED <<tr, history, uuids, externals, sibling, locked, now, callers, worker, probe, triggers, xcom, tryids, cleared>>

\* _run_raw_task on the admitted attempt
run_attempt ==
    /\ row.state = "running"
    /\ run_raw_task_start

AttemptsInit ==
    /\ row \in CreatedRows
    /\ tr = <<>>
    /\ log = <<>>
    /\ history = {}
    /\ uuids = 1
    /\ externals = 0
    /\ sibling = NoSibling
    /\ locked = FALSE
    /\ now = 1
    /\ callers = [c \in Callers |-> IdleCaller(row)]
    /\ worker = IdleWorker(row, FALSE, FALSE, row.max_tries)
    /\ probe = NoProbe
    /\ triggers = 0
    /\ xcom = {}
    /\ tryids = {row.try_id}
    /\ cleared = NotCleared

\* an instance whose every attempt fails, never permanently
AttemptsNext ==
    \/ Tick
    \/ schedule_attempt
    \/ admit_attempt
    \/ run_attempt
    \/ \E kind \in FailureKinds \ {"fail_permanent"} : execute_task_raises(kind)
    \/ catch_airflow_failure
    \/ fetch_handle_failure_context
    \/ run_failure_callbacks
    \/ save_failure

AttemptsSpec == AttemptsInit /\ [][AttemptsNext]_vars

\* the scheduler and the worker keep taking their steps
AttemptsFairSpec == AttemptsSpec /\ WF_vars(AttemptsNext)

\* an instance that is cleared, admitted again by the guard, and run
ClearNext ==
    \/ Tick
    \/ clear_task_instances
    \/ refresh_from_db_for_update(1)
    \/ check_and_change_state_before_execution(1)
    \/ run
    \/ execute_task_returns
    \/ save_success

ClearSpec == ClearInit /\ [][ClearNext]_vars

DelayInit ==
    /\ row = NewRow("up_for_retry", NoMethod, 1, 1, 1, 1)
    /\ tr = <<>>
    /\ log = <<>>
    /\ history = {}
    /\ uuids = 1
    /\ externals = 0
    /\ sibling = NoSibling
    /\ locked = FALSE
    /\ now = 1
    /\ callers = [c \in Callers |-> IdleCaller(row)]
    /\ worker = IdleWorker(row, FALSE, FALSE, 0)
    /\ probe \in DelayProbes
    /\ triggers = 0
    /\ xcom = {}
    /\ tryids = {row.try_id}
    /\ cleared = NotCleared

DelayNext == next_retry_datetime

DelaySpec == DelayInit /\ [][DelayNext]_vars

\* the date the probe may be retried from
probe_next_retry_datetime(p) ==
    p.end_date + next_retry_delay(p.retry_delay, p.backoff, p.try_number,
                                  p.ti_hash, p.max_retry_delay)

ready_for_retry_from(p, utcnow) ==
    p.state = "up_for_retry" /\ probe_next_retry_datetime(p) <= utcnow

\* TaskInstance.ready_for_retry
ready_for_retry(p, utcnow) ==
    p.state = "up_for_retry" /\ probe_next_retry_datetime(p) < utcnow

\* TaskInstance.is_premature
is_premature(p, utcnow) ==
    p.state = "up_for_retry" /\ ~ready_for_retry(p, utcnow)

\* the instances the readiness checks are evaluated on
ReadyProbes ==
    [state : TaskStates, retry_delay : {0, 1, 5}, backoff : BOOLEAN,
     try_number : {1}, ti_hash : {0, 1}, max_retry_delay : {NoTimeout},
     end_date : {1}, premature : {"unknown"}, premature_at : {NoDate},
     ready : {"unknown"}, ready_at : {NoDate}]

\* ti.is_premature on the probe
evaluate_is_premature ==
    /\ probe' = [probe EXCEPT !.premature = is_premature(probe, now),
                              !.premature_at = now]
    /\ UNCHANGED <<row, tr, log, history, uuids, externals, sibling, locked, now,
                   callers, worker, triggers, xcom, tryids, cleared>>

\* ti.ready_for_retry() on the probe
evaluate_ready_for_retry ==
    /\ probe' = [probe EXCEPT !.ready = ready_for_retry(probe, now),
                              !.ready_at = now]
    /\ UNCHANGED <<row, tr, log, history, uuids, externals, sibling, locked, now,
                   callers, worker, triggers, xcom, tryids, cleared>>

ReadyInit ==
    /\ row = NewRow("up_for_retry", NoMethod, 1, 1, 1, 1)
    /\ tr = <<>>
    /\ log = <<>>
    /\ history = {}
    /\ uuids = 1
    /\ externals = 0
    /\ sibling = NoSibling
    /\ locked = FALSE
    /\ now = 1
    /\ callers = [c \in Callers |-> IdleCaller(row)]
    /\ worker = IdleWorker(row, FALSE, FALSE, 0)
    /\ probe \in ReadyProbes
    /\ triggers = 0
    /\ xcom = {}
    /\ tryids = {row.try_id}
    /\ cleared = NotCleared

ReadyNext == Tick \/ evaluate_is_premature \/ evaluate_ready_for_retry

ReadySpec == ReadyInit /\ [][ReadyNext]_vars

---------------------------------------------------------------------------
\* One execution: _execute_task_with_callbacks and _execute_task, step by
\* step.  The probe is the execution: `trace` lists what was called, `raising`
\* the pieces of user code that raise an Exception when called.

\* the user code called during an execution
UserCode ==
    {"_pre_execute_hook", "pre_execute", "on_execute_callback[0]",
     "on_execute_callback[1]", "on_task_instance_running", "execute",
     "_post_execute_hook", "post_execute"}

\* os.getpid() in the process that runs the task, and in a child it forked
ParentPid == 1
ChildPid == 2

NoCall == [callable |-> "none", next_method |-> NoMethod, next_kwargs |-> NoKwargs,
           sentinel |-> FALSE]

execute_callable_from_the_start(ti) ==
    [callable |-> "execute", next_method |-> NoMethod, next_kwargs |-> NoKwargs,
     sentinel |-> TRUE]

\* execute_callable and execute_callable_kwargs
execute_callable(ti) ==
    IF ti.next_method # NoMethod
    THEN [callable |-> "resume_execution", next_method |-> ti.next_method,
          next_kwargs |-> IF ti.next_kwargs = NoKwargs THEN "{}" ELSE ti.next_kwargs,
          sentinel |-> ti.next_method = "execute"]
    ELSE [callable |-> "execute", next_method |-> NoMethod, next_kwargs |-> NoKwargs,
          sentinel |-> TRUE]

timeout_seconds_from_resumption(ti, execution_timeout, utcnow) == execution_timeout

\* timeout_seconds: what is left of execution_timeout
timeout_seconds(ti, execution_timeout, utcnow) ==
    IF ti.next_method # NoMethod /\ ti.start_date # NoDate
    THEN execution_timeout - (utcnow - ti.start_date)
    ELSE execution_timeout

\* the except clause of _run_raw_task that catches an exception
except_clause(exception) ==
    CASE exception = "AirflowSkipException" -> "skip"
      [] exception \in {"AirflowFailException", "AirflowSensorTimeout"} -> "fail_permanent"
      [] exception \in {"AirflowTaskTimeout", "AirflowException", "AirflowTaskTerminated"}
            -> "fail_airflow"
      [] exception = "SystemExit" -> "system_exit"
      [] OTHER -> "other_exception"

run_execute_callback_until_error(callbacks, raising) ==
    IF callbacks[1] \in raising
    THEN [trace |-> <<callbacks[1]>>, raised |-> TRUE]
    ELSE [trace |-> callbacks, raised |-> FALSE]

\* _run_execute_callback: each callback in turn, an Exception logged
run_execute_callback(callbacks, raising) ==
    LET called(i) == IF callbacks[i] \in raising
                     THEN <<callbacks[i], "log.exception">>
                     ELSE <<callbacks[i]>>
    IN  [trace |-> called(1) \o called(2), raised |-> FALSE]

signal_handler_in_any_process(pid, parent_pid) == "terminate"

\* signal_handler: what the handler does in the process it runs in
signal_handler(pid, parent_pid) ==
    IF pid # parent_pid THEN "os._exit" ELSE "terminate"

\* the executions: a fresh attempt or one resumed from a deferral
ExecProbes ==
    {[pc |-> "start", ti |-> ti, execution_timeout |-> execution_timeout,
      has_pre_execute_hook |-> hooks, has_post_execute_hook |-> hooks,
      raising |-> raising, execute_raises |-> "Exception",
      parent_pid |-> 0, trace |-> <<>>,
      exception |-> "", call |-> NoCall, timed |-> FALSE, remaining |-> 0,
      at |-> NoDate,
      signal |-> 0, at_signal |-> <<>>, exited |-> {},
      kind |-> "", force_fail |-> FALSE] :
        ti \in {NewRow("running", NoMethod, 1, NoDate, 1, 1),
                NewRow("running", "execute_complete", 1, NoDate, 1, 1),
                NewRow("running", "execute", 1, NoDate, 1, 1)},
        execution_timeout \in {NoTimeout, 0, 1, MaxTime},
        hooks \in BOOLEAN,
        raising \in {r \in SUBSET UserCode : Cardinality(r) <= MaxRaising}}

\* the execution ended by an exception
raise(exception, events) ==
    [probe EXCEPT !.pc = "raised", !.exception = exception, !.trace = @ \o events]

\* a piece of user code is called: it returns and the execution goes on at
\* `next`, or it raises
call_user_code(code, next) ==
    IF code \in probe.raising
    THEN raise("Exception", <<code>>)
    ELSE [probe EXCEPT !.pc = next, !.trace = Append(@, code)]

exec_unchanged ==
    UNCHANGED <<row, tr, log, history, uuids, externals, sibling, locked, now,
                callers, worker, triggers, xcom, tryids, cleared>>

\* parent_pid = os.getpid(); signal.signal(SIGTERM, signal_handler)
install_signal_handler ==
    /\ probe.pc = "start"
    /\ probe' = [probe EXCEPT !.pc = "_pre_execute_hook", !.parent_pid = ParentPid]
    /\ exec_unchanged

\* self.task._pre_execute_hook, when there is one
run_pre_execute_hook ==
    /\ probe.pc = "_pre_execute_hook"
    /\ probe' = IF probe.has_pre_execute_hook
                THEN call_user_code("_pre_execute_hook", "pre_execute")
                ELSE [probe EXCEPT !.pc = "pre_execute"]
    /\ exec_unchanged

\* self.task.pre_execute
run_pre_execute ==
    /\ probe.pc = "pre_execute"
    /\ probe' = call_user_code("pre_execute", "on_execute_callback")
    /\ exec_unchanged

\* self._run_execute_callback(context, self.task)
run_on_execute_callbacks ==
    /\ probe.pc = "on_execute_callback"
    /\ LET ran == run_execute_callback(
                      <<"on_execute_callback[0]", "on_execute_callback[1]">>,
                      probe.raising)
       IN  probe' = IF ran.raised
                    THEN raise("Exception", ran.trace)
                    ELSE [probe EXCEPT !.pc = "on_task_instance_running",
                                       !.trace = @ \o ran.trace]
    /\ exec_unchanged

\* the on_task_instance_running listener hook, an Exception logged
run_on_task_instance_running ==
    /\ probe.pc = "on_task_instance_running"
    /\ probe' = [probe EXCEPT
           !.pc = "execute",
           !.trace = @ \o IF "on_task_instance_running" \in probe.raising
                          THEN <<"on_task_instance_running", "log.exception">>
                          ELSE <<"on_task_instance_running">>]
    /\ exec_unchanged

\* _execute_task: the timeout left, the fast fail when none is left, the call
\* of execute or resume_execution, which returns, raises, or is interrupted
\* by the timeout
run_execute_task ==
    /\ probe.pc = "execute"
    /\ LET timed == probe.execution_timeout # NoTimeout /\ probe.execution_timeout # 0
           left == IF timed
                   THEN timeout_seconds(probe.ti, probe.execution_timeout, now)
                   ELSE 0
           call == execute_callable(probe.ti)
           called == [probe EXCEPT !.timed = timed, !.remaining = left, !.at = now,
                                   !.call = call]
       IN  IF timed /\ left <= 0
           THEN probe' = [raise("AirflowTaskTimeout", <<"on_kill">>) EXCEPT
                              !.timed = timed, !.remaining = left, !.at = now]
           ELSE \/ probe' = IF "execute" \in probe.raising
                            THEN [called EXCEPT !.pc = "raised",
                                                !.exception = probe.execute_raises,
                                                !.trace = Append(@, call.callable)]
                            ELSE [called EXCEPT !.pc = "_post_execute_hook",
                                                !.trace = Append(@, call.callable)]
                \/ /\ timed
                   /\ probe' = [called EXCEPT
                          !.pc = "raised", !.exception = "AirflowTaskTimeout",
                          !.trace = @ \o <<call.callable, "on_kill">>]
    /\ exec_unchanged

\* self.task._post_execute_hook, when there is one
run_post_execute_hook ==
    /\ probe.pc = "_post_execute_hook"
    /\ probe' = IF probe.has_post_execute_hook
                THEN call_user_code("_post_execute_hook", "post_execute")
                ELSE [probe EXCEPT !.pc = "post_execute"]
    /\ exec_unchanged

\* self.task.post_execute
run_post_execute ==
    /\ probe.pc = "post_execute"
    /\ probe' = call_user_code("post_execute", "returned")
    /\ exec_unchanged

\* SIGTERM reaches the process `pid` while the handler is installed and the
\* execution is under way
sigterm(pid) ==
    /\ probe.pc \notin {"start", "returned", "raised", "caught"}
    /\ probe.signal = 0
    /\ LET delivered == [probe EXCEPT !.signal = pid, !.at_signal = probe.trace]
       IN  probe' = IF signal_handler(pid, probe.parent_pid) = "os._exit"
                    THEN [delivered EXCEPT !.exited = @ \cup {pid}]
                    ELSE [delivered EXCEPT !.pc = "raised",
                                           !.exception = "AirflowTaskTerminated",
                                           !.trace = Append(@, "on_kill")]
    /\ exec_unchanged

\* the exception reaches the except clauses of _run_raw_task
raw_task_catches ==
    /\ probe.pc = "raised"
    /\ probe' = [probe EXCEPT
           !.pc = "caught", !.kind = except_clause(probe.exception),
           !.force_fail = (except_clause(probe.exception) = "fail_permanent")]
    /\ exec_unchanged

ExecInit ==
    /\ row = NewRow("running", NoMethod, 1, NoDate, 1, 1)
    /\ tr = <<>>
    /\ log = <<>>
    /\ history = {}
    /\ uuids = 1
    /\ externals = 0
    /\ sibling = NoSibling
    /\ locked = FALSE
    /\ now = 1
    /\ callers = [c \in Callers |-> IdleCaller(row)]
    /\ worker = IdleWorker(row, FALSE, FALSE, 0)
    /\ probe \in ExecProbes
    /\ triggers = 0
    /\ xcom = {}
    /\ tryids = {row.try_id}
    /\ cleared = NotCleared

ExecNext ==
    \/ Tick
    \/ install_signal_handler
    \/ run_pre_execute_hook
    \/ run_pre_execute
    \/ run_on_execute_callbacks
    \/ run_on_task_instance_running
    \/ run_execute_task
    \/ run_post_execute_hook
    \/ run_post_execute
    \/ \E pid \in {ParentPid, ChildPid} : sigterm(pid)
    \/ raw_task_catches

ExecSpec == ExecInit /\ [][ExecNext]_vars

---------------------------------------------------------------------------
\* An attempt from its start to the persisted outcome, with callbacks and
\* listener hooks that raise: the execution above, then the outcome handlers
\* of _run_raw_task.

\* the callbacks and listener hooks, and execute
CallbackCode ==
    {"on_execute_callback[0]", "on_execute_callback[1]", "on_task_instance_running",
     "execute", "on_success_callback[0]", "on_success_callback[1]",
     "on_skipped_callback[0]", "on_skipped_callback[1]",
     "on_failure_callback[0]", "on_failure_callback[1]",
     "on_retry_callback[0]", "on_retry_callback[1]",
     "on_task_instance_success", "on_task_instance_failed"}

CallbackInit ==
    /\ row \in RunningRows
    /\ tr = <<>>
    /\ log = <<"running">>
    /\ history = {}
    /\ uuids = 1
    /\ externals = 0
    /\ sibling = NoSibling
    /\ locked = FALSE
    /\ now = 1
    /\ callers = [c \in Callers |-> IdleCaller(row)]
    /\ \E raising \in {r \in SUBSET CallbackCode : Cardinality(r) <= MaxRaising} :
          /\ \E test_mode \in BOOLEAN, retries \in 0..MaxRetries :
                worker = [IdleWorker(row, test_mode, FALSE, retries) EXCEPT
                             !.raising = raising]
          /\ \E raises \in {"Exception", "AirflowException", "AirflowFailException",
                            "AirflowSkipException"} :
                /\ "execute" \notin raising => raises = "Exception"
                /\ probe = [pc |-> "start", ti |-> row, execution_timeout |-> NoTimeout,
                            has_pre_execute_hook |-> TRUE, has_post_execute_hook |-> TRUE,
                            raising |-> raising \cap UserCode, execute_raises |-> raises,
                            parent_pid |-> 0, trace |-> <<>>, exception |-> "",
                            call |-> NoCall, timed |-> FALSE, remaining |-> 0,
                            at |-> NoDate, signal |-> 0, at_signal |-> <<>>,
                            exited |-> {}, kind |-> "", force_fail |-> FALSE]
    /\ triggers = 0
    /\ xcom = {}
    /\ tryids = {row.try_id}
    /\ cleared = NotCleared

\* a step of _execute_task_with_callbacks, or its exception caught
execution_step ==
    /\ worker.pc = "executing"
    /\ \/ install_signal_handler
       \/ run_pre_execute_hook
       \/ run_pre_execute
       \/ run_on_execute_callbacks
       \/ run_on_task_instance_running
       \/ run_execute_task
       \/ run_post_execute_hook
       \/ run_post_execute
       \/ raw_task_catches

CallbackNext ==
    \/ run_raw_task_start
    \/ execution_step
    \/ probe.pc = "returned" /\ execute_task_returns
    \/ save_success
    \/ probe.pc = "caught" /\ probe.kind = "skip" /\ execute_task_skips
    \/ probe.pc = "caught" /\ probe.kind \in FailureKinds /\ execute_task_raises(probe.kind)
    \/ catch_airflow_failure
    \/ fetch_handle_failure_context
    \/ run_failure_callbacks
    \/ save_failure

CallbackSpec == CallbackInit /\ [][CallbackNext]_vars

---------------------------------------------------------------------------
\* Publishing the returned value: the tail of _execute_task and
\* _record_task_map_for_downstreams.  Both write through one session that is
\* committed when the block is left and rolled back when it raises.

XCOM_RETURN_KEY == "return_value"

\* the keys a returned mapping may have; the last one is not a string
MappingKeys ==
    {[name |-> "a", is_str |-> TRUE], [name |-> "b", is_str |-> TRUE],
     [name |-> "c", is_str |-> TRUE], [name |-> "1", is_str |-> FALSE]}

\* the values execute may return: None, a number, a list, a mapping
ReturnedValues ==
    [kind : {"none", "scalar"}, len : {0}, keys : {{}}]
    \cup [kind : {"list"}, len : 0..(MaxMapLength + 1), keys : {{}}]
    \cup {[kind |-> "mapping", len |-> Cardinality(keys), keys |-> keys] :
             keys \in SUBSET MappingKeys}

\* is_mappable_value
is_mappable_value(value) == value.kind \in {"list", "mapping"}

multiple_outputs_error_unchecked_keys(value) ==
    IF value.kind # "mapping" THEN "expected dictionary" ELSE ""

\* the checks on a value returned under multiple_outputs: "" when it passes
multiple_outputs_error(value) ==
    IF value.kind # "mapping" THEN "expected dictionary"
    ELSE IF \E key \in value.keys : ~key.is_str THEN "keys must be strings"
    ELSE ""

NoTaskMap == [error |-> "", length |-> NoCount]

record_task_map_for_downstreams_unbounded(task_mapped, mapped_dependants, value, max_map_length) ==
    IF ~mapped_dependants THEN NoTaskMap
    ELSE IF task_mapped THEN NoTaskMap
    ELSE IF value.kind = "none" THEN [error |-> "XComForMappingNotPushed", length |-> NoCount]
    ELSE IF ~is_mappable_value(value)
         THEN [error |-> "UnmappableXComTypePushed", length |-> NoCount]
    ELSE [error |-> "", length |-> value.len]

\* _record_task_map_for_downstreams: the error raised, or the length of the
\* TaskMap merged into the session (NoCount when none is)
record_task_map_for_downstreams(task_mapped, mapped_dependants, value, max_map_length) ==
    IF ~mapped_dependants THEN NoTaskMap
    ELSE IF task_mapped THEN NoTaskMap
    ELSE IF value.kind = "none" THEN [error |-> "XComForMappingNotPushed", length |-> NoCount]
    ELSE IF ~is_mappable_value(value)
         THEN [error |-> "UnmappableXComTypePushed", length |-> NoCount]
    ELSE IF value.len > max_map_length
         THEN [error |-> "UnmappableXComLengthPushed", length |-> NoCount]
    ELSE [error |-> "", length |-> value.len]

\* the keys handed to xcom_push: none when a check refused the value, the
\* keys of the mapping under multiple_outputs, and the return key
xcom_pushes_while_checking(value, multiple_outputs, refused) ==
    IF value.kind = "none" \/ refused = "expected dictionary" THEN {}
    ELSE IF refused # "" THEN {key.name : key \in {k \in value.keys : k.is_str}}
    ELSE (IF multiple_outputs THEN {key.name : key \in value.keys} ELSE {})
         \cup {XCOM_RETURN_KEY}

xcom_pushes(value, multiple_outputs, refused) ==
    IF value.kind = "none" \/ refused # "" THEN {}
    ELSE (IF multiple_outputs THEN {key.name : key \in value.keys} ELSE {})
         \cup {XCOM_RETURN_KEY}

\* `with create_session() as session`: the block commits `pending` when it is
\* left normally and rolls back when it is left by an exception
create_session_exit(error, pending, nothing) ==
    IF error = "" THEN pending ELSE nothing

\* the operators and returned values the publication is evaluated on
PushProbes ==
    [do_xcom_push : BOOLEAN, multiple_outputs : BOOLEAN, task_mapped : BOOLEAN,
     mapped_dependants : BOOLEAN, result : ReturnedValues,
     max_map_length : {MaxMapLength},
     done : {FALSE}, error : {""}, pushed : {{}}, xcoms : {{}}, task_map : {NoCount}]

\* the tail of _execute_task on the probe: `pushed` are the keys handed to
\* xcom_push, `xcoms` and `task_map` what the session committed
push_xcom_result ==
    /\ ~probe.done
    /\ LET xcom_value == IF probe.do_xcom_push THEN probe.result
                         ELSE [kind |-> "none", len |-> 0, keys |-> {}]
           refused == IF xcom_value.kind # "none" /\ probe.multiple_outputs
                      THEN multiple_outputs_error(xcom_value) ELSE ""
           pushed == xcom_pushes(xcom_value, probe.multiple_outputs, refused)
           task_map == record_task_map_for_downstreams(
                           probe.task_mapped, probe.mapped_dependants, xcom_value,
                           probe.max_map_length)
           error == IF refused # "" THEN refused ELSE task_map.error
       IN  probe' = [probe EXCEPT
               !.done = TRUE, !.error = error, !.pushed = pushed,
               !.xcoms = create_session_exit(error, pushed, {}),
               !.task_map = create_session_exit(error, task_map.length, NoCount)]
    /\ UNCHANGED <<row, tr, log, history, uuids, externals, sibling, locked, now,
                   callers, worker, triggers, xcom, tryids, cleared>>

PushInit ==
    /\ row = NewRow("running", NoMethod, 1, NoDate, 1, 1)
    /\ tr = <<>>
    /\ log = <<>>
    /\ history = {}
    /\ uuids = 1
    /\ externals = 0
    /\ sibling = NoSibling
    /\ locked = FALSE
    /\ now = 1
    /\ callers = [c \in Callers |-> IdleCaller(row)]
    /\ worker = IdleWorker(row, FALSE, FALSE, 0)
    /\ probe \in PushProbes
    /\ triggers = 0
    /\ xcom = {}
    /\ tryids = {row.try_id}
    /\ cleared = NotCleared

PushNext == push_xcom_result

PushSpec == PushInit /\ [][PushNext]_vars

---------------------------------------------------------------------------
\* Mapped-index resolution: TaskInstance.get_relevant_upstream_map_indexes.
\* A dag is a tree of task groups, some of them mapped; an operator sits in one
\* group and may itself be a MappedOperator.  Map indexes number the instances
\* of an operator with the outermost expansion varying slowest.

\* the task groups of the dag: g2 lies inside g1, h beside g1
TaskGroups(len1, mapped2, len2) ==
    [g \in {"root", "g1", "g2", "h"} |->
        CASE g = "root" -> [parent_group |-> "none", mapped |-> FALSE, len |-> 1]
          [] g = "g1" -> [parent_group |-> "root", mapped |-> TRUE, len |-> len1]
          [] g = "g2" -> [parent_group |-> "g1", mapped |-> mapped2, len |-> len2]
          [] g = "h" -> [parent_group |-> "root", mapped |-> TRUE, len |-> MaxGroupLen]]

\* iter_mapped_task_groups: the mapped groups around a group, innermost first
RECURSIVE iter_mapped_task_groups(_, _)
iter_mapped_task_groups(groups, g) ==
    IF g = "none" THEN <<>>
    ELSE (IF groups[g].mapped THEN <<g>> ELSE <<>>)
         \o iter_mapped_task_groups(groups, groups[g].parent_group)

\* the product of the lengths of the listed groups
RECURSIVE total_length(_, _)
total_length(groups, ids) ==
    IF ids = <<>> THEN 1 ELSE groups[Head(ids)].len * total_length(groups, Tail(ids))

\* get_mapped_ti_count of a mapped task group
group_mapped_ti_count(groups, g) ==
    total_length(groups, iter_mapped_task_groups(groups, g))

\* the number of instances of an operator, NoCount when nothing expands it
expanded_ti_count(groups, op) ==
    IF ~op.mapped /\ iter_mapped_task_groups(groups, op.task_group) = <<>>
    THEN NoCount
    ELSE group_mapped_ti_count(groups, op.task_group) * (IF op.mapped THEN op.len ELSE 1)

\* _find_common_ancestor_mapped_group, "none" when there is none
find_common_ancestor_mapped_group(groups, node1, node2) ==
    IF node1.dag = "none" \/ node2.dag = "none" \/ node1.dag # node2.dag THEN "none"
    ELSE LET parent_group_ids ==
                 {iter_mapped_task_groups(groups, node1.task_group)[i] :
                     i \in 1..Len(iter_mapped_task_groups(groups, node1.task_group))}
             common_groups ==
                 SelectSeq(iter_mapped_task_groups(groups, node2.task_group),
                           LAMBDA g : g \in parent_group_ids)
         IN  IF common_groups = <<>> THEN "none" ELSE Head(common_groups)

\* the walk of _is_further_mapped_inside from a group up to the container
RECURSIVE mapped_below(_, _, _)
mapped_below(groups, g, container) ==
    IF g = "none" \/ g = container THEN FALSE
    ELSE groups[g].mapped \/ mapped_below(groups, groups[g].parent_group, container)

\* _is_further_mapped_inside
is_further_mapped_inside(groups, operator, container) ==
    operator.mapped \/ mapped_below(groups, operator.task_group, container)

WholeValue == [kind |-> "none", start |-> 0, stop |-> 0]

get_relevant_upstream_map_indexes_by_ancestor(groups, task, map_index, upstream, ti_count) ==
    IF ti_count = NoCount \/ ti_count = 0 THEN WholeValue
    ELSE LET common_ancestor == find_common_ancestor_mapped_group(groups, task, upstream)
         IN  IF common_ancestor = "none" THEN WholeValue
             ELSE LET ancestor_ti_count == group_mapped_ti_count(groups, common_ancestor)
                      ancestor_map_index == (map_index * ancestor_ti_count) \div ti_count
                  IN  IF ~is_further_mapped_inside(groups, upstream, common_ancestor)
                      THEN [kind |-> "index", start |-> ancestor_map_index,
                            stop |-> ancestor_map_index + 1]
                      ELSE [kind |-> "range", start |-> ancestor_map_index,
                            stop |-> ancestor_map_index + 1]

\* get_relevant_upstream_map_indexes: the whole value, one index, or the
\* range start..stop-1
get_relevant_upstream_map_indexes(groups, task, map_index, upstream, ti_count) ==
    IF ti_count = NoCount \/ ti_count = 0 THEN WholeValue
    ELSE LET common_ancestor == find_common_ancestor_mapped_group(groups, task, upstream)
         IN  IF common_ancestor = "none" THEN WholeValue
             ELSE LET ancestor_ti_count == group_mapped_ti_count(groups, common_ancestor)
                      ancestor_map_index == (map_index * ancestor_ti_count) \div ti_count
                      further_count == ti_count \div ancestor_ti_count
                      map_index_start == ancestor_map_index * further_count
                  IN  IF ~is_further_mapped_inside(groups, upstream, common_ancestor)
                      THEN [kind |-> "index", start |-> ancestor_map_index,
                            stop |-> ancestor_map_index + 1]
                      ELSE [kind |-> "range", start |-> map_index_start,
                            stop |-> map_index_start + further_count]

\* the operators of the dag
Operators(dags) ==
    [task_group : {"root", "g1", "g2", "h"}, mapped : {FALSE}, len : {1}, dag : dags]
    \cup [task_group : {"root", "g1", "g2", "h"}, mapped : {TRUE},
          len : {1, MaxExpandLen}, dag : dags]

\* the dags, tasks and instances the resolution is evaluated on
MapProbes(tasks, upstreams) ==
    {[groups |-> TaskGroups(len1, mapped2, len2), task |-> task, upstream |-> upstream,
      ti_count |-> expanded_ti_count(TaskGroups(len1, mapped2, len2), task),
      map_index |-> map_index, evaluated |-> FALSE, result |-> WholeValue] :
        len1 \in 0..MaxGroupLen, mapped2 \in BOOLEAN, len2 \in {1, MaxExpandLen},
        task \in tasks, upstream \in upstreams,
        map_index \in -1..(MaxGroupLen * MaxExpandLen * MaxExpandLen - 1)}

\* the instances that exist: map_index -1 for a task that is not expanded or
\* expanded to nothing, 0..ti_count-1 otherwise
ExistingInstance(p) ==
    IF p.ti_count = NoCount \/ p.ti_count = 0
    THEN p.map_index = -1
    ELSE p.map_index \in 0..(p.ti_count - 1)

\* ti.get_relevant_upstream_map_indexes(upstream, ti_count) on the probe
resolve_upstream_map_indexes ==
    /\ ~probe.evaluated
    /\ probe' = [probe EXCEPT
           !.evaluated = TRUE,
           !.result = get_relevant_upstream_map_indexes(
                          probe.groups, probe.task, probe.map_index,
                          probe.upstream, probe.ti_count)]
    /\ UNCHANGED <<row, tr, log, history, uuids, externals, sibling, locked, now,
                   callers, worker, triggers, xcom, tryids, cleared>>

MapInit ==
    /\ row = NewRow("running", NoMethod, 1, NoDate, 1, 1)
    /\ tr = <<>>
    /\ log = <<>>
    /\ history = {}
    /\ uuids = 1
    /\ externals = 0
    /\ sibling = NoSibling
    /\ locked = FALSE
    /\ now = 1
    /\ callers = [c \in Callers |-> IdleCaller(row)]
    /\ worker = IdleWorker(row, FALSE, FALSE, 0)
    /\ probe \in {p \in MapProbes(Operators({"dag"}), Operators({"dag", "other"})) :
                       ExistingInstance(p)}
    /\ triggers = 0
    /\ xcom = {}
    /\ tryids = {row.try_id}
    /\ cleared = NotCleared

MapNext == resolve_upstream_map_indexes

MapSpec == MapInit /\ [][MapNext]_vars

\* ti.is_eligible_to_retry() on the probe
evaluate_is_eligible_to_retry ==
    /\ ~probe.evaluated
    /\ probe' = [probe EXCEPT
           !.evaluated = TRUE,
           !.result = is_eligible_to_retry(probe, probe.has_task, probe.retries)]
    /\ UNCHANGED <<row, tr, log, history, uuids, externals, sibling, locked, now,
                   callers, worker, triggers, xcom, tryids, cleared>>

RetryInit ==
    /\ row = NewRow("running", NoMethod, 1, NoDate, 1, 1)
    /\ tr = <<>>
    /\ log = <<>>
    /\ history = {}
    /\ uuids = 1
    /\ externals = 0
    /\ sibling = NoSibling
    /\ locked = FALSE
    /\ now = 1
    /\ callers = [c \in Callers |-> IdleCaller(row)]
    /\ worker = IdleWorker(row, FALSE, FALSE, 0)
    /\ probe \in Probes
    /\ triggers = 0
    /\ xcom = {}
    /\ tryids = {row.try_id}
    /\ cleared = NotCleared

RetryNext == evaluate_is_eligible_to_retry

RetrySpec == RetryInit /\ [][RetryNext]_vars

---------------------------------------------------------------------------
\* Claims about the State Transition Guard (checked under Spec).

Returned(c) == callers[c].pc = "done"

\* the call evaluated the non-requeueable dependencies and one of them failed
NonRequeueableFailed(c) ==
    /\ Returned(c)
    /\ ~callers[c].mark_success
    /\ ~NonRequeueableDepsMet(callers[c].before, callers[c].nonReqOk)

\* the non-requeueable dependencies passed and a requeueable one failed
RequeueableFailed(c) ==
    /\ Returned(c)
    /\ ~callers[c].mark_success
    /\ NonRequeueableDepsMet(callers[c].before, callers[c].nonReqOk)
    /\ ~callers[c].reqOk

\* C1 as stated: among concurrent callers of
\* check_and_change_state_before_execution on one instance, at most one
\* returns True.
C1_AtMostOneRunnable ==
    Cardinality({c \in Callers : Returned(c) /\ callers[c].ret}) <= 1

\* C1 amended: among the concurrent callers that pass neither mark_success nor
\* test_mode, at most one returns True; a caller that takes the row lock after
\* the winner's commit sees state running and returns False.
C1_AtMostOneRunnableChecked ==
    /\ Cardinality({c \in Callers : /\ Returned(c) /\ callers[c].ret
                                    /\ ~callers[c].mark_success
                                    /\ ~callers[c].test_mode}) <= 1
    /\ \A c \in Callers :
        Returned(c) /\ ~callers[c].mark_success /\ callers[c].before.state = "running"
            => ~callers[c].ret

\* a winner and a loser that locked the row after the winner committed
C1_Witness ==
    \E c, d \in Callers :
        /\ c # d /\ Returned(c) /\ Returned(d)
        /\ ~callers[c].mark_success /\ ~callers[c].test_mode /\ callers[c].ret
        /\ ~callers[d].mark_success /\ ~callers[d].test_mode /\ ~callers[d].ret
        /\ callers[d].nonReqOk
        /\ callers[d].before.state = "running"

\* C2 as stated: the call returns True iff it set the state to running; on
\* True the persisted row is running with a null end_date and, outside test
\* mode, one "running" audit log entry was appended; on False the call did not
\* change the persisted state to running.
C2_TrueIffRunningPersisted ==
    \A c \in Callers : Returned(c) =>
        /\ callers[c].ret =>
            /\ callers[c].ti.state = "running"
            /\ callers[c].after.state = "running"
            /\ callers[c].after.end_date = NoDate
            /\ ~callers[c].test_mode => callers[c].logged = <<"running">>
        /\ ~callers[c].ret =>
            /\ callers[c].ti.state = "running" => callers[c].before.state = "running"
            /\ callers[c].after.state = "running" => callers[c].before.state = "running"

\* C2 amended: the call returns True iff it set the instance's state to
\* running; on True outside test mode the persisted row is running with a null
\* end_date and one "running" audit log entry was appended; on True in test
\* mode the row and the audit log are not written; on False the call did not
\* change the persisted state to running.
C2_TrueIffRunning ==
    \A c \in Callers : Returned(c) =>
        /\ callers[c].ret =>
            /\ callers[c].ti.state = "running"
            /\ callers[c].ti.end_date = NoDate
            /\ ~callers[c].test_mode =>
                /\ callers[c].after.state = "running"
                /\ callers[c].after.end_date = NoDate
                /\ callers[c].logged = <<"running">>
            /\ callers[c].test_mode =>
                /\ callers[c].after = callers[c].before
                /\ callers[c].logged = <<>>
        /\ ~callers[c].ret =>
            /\ callers[c].ti.state = "running" => callers[c].before.state = "running"
            /\ callers[c].after.state = "running" => callers[c].before.state = "running"
            /\ callers[c].logged = <<>>

\* an admission outside test mode of a row that had an end_date, and a refusal
C2_Witness ==
    \E c, d \in Callers :
        /\ Returned(c) /\ callers[c].ret /\ ~callers[c].test_mode
        /\ callers[c].before.end_date # NoDate
        /\ Returned(d) /\ ~callers[d].ret

\* C3: if a non-requeueable dependency fails, the call returns False and the
\* persisted row after the call equals the row before it (state, start_date,
\* end_date, queued_dttm, try_number, max_tries, hostname, pid and the rest).
C3_DepsFailedLeavesRow ==
    \A c \in Callers : NonRequeueableFailed(c) =>
        /\ ~callers[c].ret
        /\ callers[c].after = callers[c].before

\* a refused call whose hostname argument differs from the row's
C3_Witness ==
    \E c \in Callers :
        /\ NonRequeueableFailed(c)
        /\ callers[c].ti.hostname # callers[c].before.hostname

\* C4: if the non-requeueable dependencies pass and a requeueable one fails,
\* the call returns False, the persisted state becomes none, queued_dttm is the
\* time of the call, and try_number and max_tries are unchanged.
C4_RequeueKeepsTries ==
    \A c \in Callers : RequeueableFailed(c) =>
        /\ ~callers[c].ret
        /\ callers[c].after.state = "none"
        /\ callers[c].after.queued_dttm = callers[c].at
        /\ callers[c].after.try_number = callers[c].before.try_number
        /\ callers[c].after.max_tries = callers[c].before.max_tries

\* a requeued call, made after the clock advanced
C4_Witness ==
    \E c \in Callers :
        /\ RequeueableFailed(c)
        /\ callers[c].at > 1
        /\ callers[c].before.state = "queued"

---------------------------------------------------------------------------
\* Claims about the failure path of _run_raw_task (checked under RunSpec).

Done == worker.pc = "done"

\* handle_failure was called for the attempt's failure
Handled ==
    Done /\ \E i \in 1..Len(worker.events) : worker.events[i] = "on_task_instance_failed"

NonPermanent == {"fail_airflow", "system_exit", "other_exception"}

\* the state the retry policy gives the instance that failure handling read
RetryPolicyState ==
    IF is_eligible_to_retry(worker.seen, TRUE, worker.retries)
    THEN "up_for_retry"
    ELSE "failed"

\* C5 as stated: when the task body fails non-permanently and the instance was
\* not set to a terminal state externally, the persisted state after failure
\* handling is up_for_retry if the instance is eligible to retry and failed
\* otherwise.
C5_NonPermanentPersisted ==
    Done /\ worker.outcome \in NonPermanent /\ worker.seen.state \notin Finished
        => worker.after.state = RetryPolicyState

\* C5 amended: in that case failure handling sets the instance's state to
\* up_for_retry if it is eligible to retry and to failed otherwise, and outside
\* test mode that state is the persisted state after failure handling.
C5_NonPermanentByRetryPolicy ==
    Done /\ worker.outcome \in NonPermanent /\ worker.seen.state \notin Finished
        => /\ worker.ti.state = RetryPolicyState
           /\ ~worker.test_mode => worker.after.state = RetryPolicyState

\* a retry and a final failure, both persisted, the retry under fail_fast
C5_Witness ==
    /\ Done /\ worker.outcome \in NonPermanent /\ ~worker.test_mode
    /\ worker.seen.state = "running"
    /\ worker.fail_fast
    /\ worker.after.state = "up_for_retry"

\* C6 as stated: when the task body raises a permanent failure, the persisted
\* state after failure handling is failed, for every try_number, max_tries and
\* retry count.
C6_PermanentPersisted ==
    Done /\ worker.outcome = "fail_permanent" => worker.after.state = "failed"

\* C6 amended: a permanent failure sets the instance's state to failed, never
\* up_for_retry, for every try_number, max_tries and retry count, and outside
\* test mode failed is the persisted state after failure handling.
C6_PermanentNeverRetries ==
    Done /\ worker.outcome = "fail_permanent"
        => /\ worker.ti.state = "failed"
           /\ ~worker.test_mode => worker.after.state = "failed"

\* a permanent failure of an instance that was eligible to retry
C6_Witness ==
    /\ Done /\ worker.outcome = "fail_permanent" /\ ~worker.test_mode
    /\ is_eligible_to_retry(worker.seen, TRUE, worker.retries)
    /\ worker.after.state = "failed"

\* C8 as stated: a failure handled with force_fail, or under the run's
\* fail_fast policy, leaves the instance failed, not up_for_retry.
C8_ForceFailOrFailFastFails ==
    Handled /\ (worker.force_fail \/ worker.fail_fast) => worker.ti.state = "failed"

\* C8 amended: a failure handled with force_fail leaves the instance failed,
\* whatever its try_number, max_tries and retry count; fail_fast alone does not
\* decide retry: without force_fail the instance is up_for_retry when it is
\* eligible to retry and failed otherwise, also under fail_fast.
C8_OnlyForceFailFails ==
    /\ Handled /\ worker.force_fail => worker.ti.state = "failed"
    /\ Handled /\ ~worker.force_fail /\ worker.fail_fast
        => worker.ti.state = RetryPolicyState

\* a failure under fail_fast, without force_fail, that is retried
C8_Witness ==
    /\ Handled /\ worker.fail_fast /\ ~worker.force_fail
    /\ worker.seen.state = "running"
    /\ worker.ti.state = "up_for_retry"

\* C9 as stated: if the instance was set externally to a terminal state while
\* the attempt ran, a termination of the attempt leaves that state persisted
\* and runs neither failure handling nor the failure/retry callbacks.
C9_ExternalStateKept ==
    Done /\ worker.outcome = "fail_airflow" /\ worker.found.state \in Finished
        => /\ worker.after.state = worker.found.state
           /\ worker.events = <<>>

\* C9 amended: outside test mode, if the instance was set externally to a
\* terminal state while the attempt ran, a termination of the attempt leaves
\* that state persisted and runs neither failure handling nor the callbacks.
C9_ExternalStateKeptOutsideTest ==
    Done /\ worker.outcome = "fail_airflow" /\ ~worker.test_mode
         /\ worker.found.state \in Finished
        => /\ worker.after.state = worker.found.state
           /\ worker.events = <<>>
           /\ log = <<"running">>

\* a terminated attempt of an instance marked success while it ran
C9_Witness ==
    /\ Done /\ worker.outcome = "fail_airflow" /\ ~worker.test_mode
    /\ externals > 0
    /\ worker.found.state = "success"
    /\ worker.after.state = "success"

\* C10 as stated: for every kind of failure that reaches the failure path, an
\* externally set terminal state observed during failure handling is kept: the
\* persisted state after handling equals it.
C10_EveryFailureKeepsExternal ==
    Done /\ worker.outcome \in FailureKinds /\ worker.found.state \in Finished
        => worker.after.state = worker.found.state

\* C10 amended: outside test mode an externally set terminal state is kept
\* only when the failure is a timeout, an AirflowException or a termination;
\* for a permanent failure, an error exit code or any other exception, failure
\* handling overwrites it with failed or up_for_retry as the retry policy says.
C10_OnlyAirflowFailureKeepsExternal ==
    Done /\ ~worker.test_mode /\ worker.found.state \in Finished
        => IF worker.outcome = "fail_airflow"
           THEN worker.after.state = worker.found.state /\ ~Handled
           ELSE /\ Handled
                /\ worker.after.state =
                       IF worker.force_fail THEN "failed" ELSE RetryPolicyState

\* both cases: a kept success, and a success overwritten by failure handling
C10_Witness ==
    /\ Done /\ ~worker.test_mode /\ worker.found.state = "success"
    /\ \/ worker.outcome = "fail_airflow" /\ worker.after.state = "success"
       \/ worker.outcome = "other_exception" /\ worker.after.state = "failed"

\* the attempt was marked failed, not up_for_retry, in a run with fail_fast
FailedFast == Handled /\ worker.fail_fast /\ worker.ti.state = "failed"

C16_ReplacedTryIdsArchived ==
    \A id \in tryids : id # row.try_id => id \in history

---------------------------------------------------------------------------
\* Claims about the outcomes that are not failures (checked under OutcomeSpec).

Outcome(kind) == Done /\ worker.outcome = kind

C12_StatedTimeout ==
    LET r == worker.request
        explicit == worker.at + r.timeout
        deadline == worker.seen.start_date + r.execution_timeout
    IN  IF r.timeout # NoTimeout /\ r.execution_timeout > 0
        THEN MinDate(explicit, deadline)
        ELSE IF r.timeout # NoTimeout THEN explicit
        ELSE IF r.execution_timeout > 0 THEN deadline
        ELSE NoDate

\* C12 as stated: a deferral returns DEFERRED and persists state deferred,
\* the id of a newly created trigger row, next_method and next_kwargs as
\* requested, and the stated trigger_timeout.
C12_DeferralPersistedAsRequested ==
    Outcome("defer") =>
        /\ worker.ret = "DEFERRED"
        /\ row = worker.after
        /\ row.state = "deferred"
        /\ row.trigger_id = triggers /\ row.trigger_id # worker.found.trigger_id
        /\ row.next_method = worker.request.method
        /\ row.next_kwargs = worker.request.kwargs
        /\ row.trigger_timeout = C12_StatedTimeout

\* C12 amended: as stated, except that next_kwargs is the empty mapping when
\* the deferral carries no kwargs.
C12_DeferralPersisted ==
    Outcome("defer") =>
        /\ worker.ret = "DEFERRED"
        /\ row = worker.after
        /\ row.state = "deferred"
        /\ row.trigger_id = triggers /\ row.trigger_id # worker.found.trigger_id
        /\ row.next_method = worker.request.method
        /\ row.next_kwargs = IF worker.request.kwargs = NoKwargs
                             THEN "{}" ELSE worker.request.kwargs
        /\ row.trigger_timeout = C12_StatedTimeout

\* a deferral without kwargs whose execution_timeout ends before its timeout
C12_Witness ==
    /\ Outcome("defer")
    /\ worker.request.kwargs = NoKwargs
    /\ worker.request.timeout # NoTimeout
    /\ row.trigger_timeout = worker.seen.start_date + worker.request.execution_timeout
    /\ row.trigger_timeout < worker.at + worker.request.timeout

\* C13: a reschedule outside test mode persists state up_for_reschedule with
\* null next_method and next_kwargs, leaves try_number and max_tries as they
\* were, and appends exactly one reschedule record carrying the try_number,
\* the attempt's start and end times and the requested reschedule date.
C13_ReschedulePersisted ==
    Outcome("reschedule") /\ ~worker.test_mode =>
        /\ worker.after.state = "up_for_reschedule"
        /\ worker.after.next_method = NoMethod
        /\ worker.after.next_kwargs = NoKwargs
        /\ worker.after.try_number = worker.found.try_number
        /\ worker.after.max_tries = worker.found.max_tries
        /\ tr = <<TaskReschedule(worker.found.try_number, worker.actual_start_date,
                                 worker.at, worker.request.reschedule_date)>>

\* a resumed attempt rescheduled after the clock advanced
C13_Witness ==
    /\ Outcome("reschedule") /\ ~worker.test_mode
    /\ worker.found.next_method # NoMethod
    /\ worker.at > worker.actual_start_date
    /\ Len(tr) = 1

ControlFlow == {"skip", "reschedule", "defer"}

FailureEvents ==
    {"on_task_instance_failed", "email_alert", "on_failure_callback", "on_retry_callback"}

NoFailureHandling ==
    \A i \in 1..Len(worker.events) : worker.events[i] \notin FailureEvents

\* C14 as stated: a skip, a reschedule or a deferral never gives up_for_retry
\* or failed and never runs failure handling or its callbacks; a skip yields
\* skipped after the on-skip callbacks, a reschedule up_for_reschedule, a
\* deferral deferred.
C14_ControlFlowYieldsState ==
    Done /\ worker.outcome \in ControlFlow =>
        /\ NoFailureHandling
        /\ worker.outcome = "skip" =>
            /\ worker.ti.state = "skipped" /\ worker.after.state = "skipped"
            /\ worker.events[1] = "on_skipped_callback"
        /\ worker.outcome = "reschedule" => worker.ti.state = "up_for_reschedule"
        /\ worker.outcome = "defer" =>
            worker.ti.state = "deferred" /\ worker.after.state = "deferred"

\* C14 amended: the same, except that in test mode a reschedule is not
\* recorded: it leaves the instance and the row as they were.
C14_ControlFlowNeverRetries ==
    Done /\ worker.outcome \in ControlFlow =>
        /\ NoFailureHandling
        /\ worker.outcome = "skip" =>
            /\ worker.ti.state = "skipped" /\ worker.after.state = "skipped"
            /\ worker.events[1] = "on_skipped_callback"
        /\ worker.outcome = "reschedule" =>
            IF worker.test_mode
            THEN worker.ti = worker.seen /\ row = worker.found
            ELSE /\ worker.ti.state = "up_for_reschedule"
                 /\ worker.after.state = "up_for_reschedule"
        /\ worker.outcome = "defer" =>
            worker.ti.state = "deferred" /\ worker.after.state = "deferred"

\* a skip of an instance that was eligible to retry
C14_Witness ==
    /\ Outcome("skip") /\ ~worker.test_mode
    /\ is_eligible_to_retry(worker.seen, TRUE, worker.retries)
    /\ row.state = "skipped"

---------------------------------------------------------------------------
\* Claims about clear_task_instances and the XCom rows (checked under ClearSpec).

\* what C17 says of the row: a fresh try_id, an instance that was running
\* becomes restarting with its counters untouched, any other gets state none,
\* null next_method and next_kwargs and max_tries = try_number + retries, or
\* max(max_tries, try_number) when the task is not found
ClearedRowAsStated ==
    LET was == cleared.before
        is == cleared.after
    IN  /\ is.try_id \notin cleared.tryids_before
        /\ IF was.state = "running"
           THEN is = [was EXCEPT !.state = "restarting", !.try_id = is.try_id]
           ELSE /\ is.state = "none"
                /\ is.next_method = NoMethod /\ is.next_kwargs = NoKwargs
                /\ is.try_number = was.try_number
                /\ is.max_tries =
                       IF cleared.task_found THEN was.try_number + cleared.retries
                       ELSE IF was.max_tries >= was.try_number
                            THEN was.max_tries ELSE was.try_number
                /\ is.try_number <= is.max_tries

\* C17 as stated: clear_task_instances gives the instance a fresh try_id,
\* deletes its reschedule records and its published results, and changes the
\* row as stated.
C17_ClearDeletesResults ==
    cleared.done =>
        /\ ClearedRowAsStated
        /\ cleared.tr = <<>>
        /\ cleared.xcom = {}

\* C17 amended: the same, except that clear_task_instances leaves the
\* published results in place.
C17_ClearKeepsResults ==
    cleared.done =>
        /\ ClearedRowAsStated
        /\ cleared.tr = <<>>
        /\ cleared.xcom = cleared.xcom_before

\* a clear of a failed instance out of tries that had a reschedule record and
\* published results
C17_Witness ==
    /\ cleared.done
    /\ cleared.before.state = "failed"
    /\ cleared.before.try_number > cleared.before.max_tries
    /\ cleared.xcom_before # {} /\ cleared.tr_before # <<>>
    /\ cleared.after.state = "none"

---------------------------------------------------------------------------
\* Claims about the retry delay (checked under DelaySpec).

\* the delay the evaluation added to end_date, in ticks
AddedDelay == probe.result - probe.end_date

\* a max_retry_delay is set (a timedelta of zero is falsy)
MaxRetryDelaySet == probe.max_retry_delay # NoTimeout /\ probe.max_retry_delay # 0

C20_NeverExceedsMaxRetryDelay ==
    probe.evaluated /\ MaxRetryDelaySet =>
        /\ AddedDelay <= probe.max_retry_delay
        /\ AddedDelay <= MAX_RETRY_DELAY * TicksPerSecond

\* C20 amended: whenever max_retry_delay is set and exponential backoff is on,
\* the delay never exceeds max_retry_delay nor MAX_RETRY_DELAY, for every base
\* delay and try_number; without backoff max_retry_delay is not applied.
C20_BackoffNeverExceedsMaxRetryDelay ==
    probe.evaluated /\ MaxRetryDelaySet =>
        IF probe.backoff
        THEN /\ AddedDelay <= probe.max_retry_delay
             /\ AddedDelay <= MAX_RETRY_DELAY * TicksPerSecond
        ELSE AddedDelay = probe.retry_delay

\* a backoff that max_retry_delay cut short
C20_Witness ==
    /\ probe.evaluated /\ probe.backoff /\ MaxRetryDelaySet
    /\ probe.retry_delay = 5 /\ probe.try_number = MaxAttempts
    /\ AddedDelay = probe.max_retry_delay

\* the probe went through the exponential-backoff branch
BackedOff == probe.evaluated /\ probe.backoff

\* C21: with exponential backoff, min_backoff is max(1, ceil(d * 2^(n-1))),
\* that is the least whole number of seconds that is at least 1 and at least
\* d * 2^(n-1); the jittered delay is min_backoff + (h mod min_backoff), which
\* lies between min_backoff and 2 * min_backoff - 1.
C21_JitteredBackoff ==
    BackedOff =>
        LET scaled == probe.retry_delay * Pow2(probe.try_number - 1)
            m == probe.min_backoff
            j == probe.modded_hash
        IN  /\ m >= 1 /\ m * TicksPerSecond >= scaled
            /\ m > 1 => (m - 1) * TicksPerSecond < scaled
            /\ j >= m /\ j <= 2 * m - 1
            /\ \E q \in 0..MaxHash : probe.ti_hash = q * m + (j - m)

\* a backoff of 2.5 seconds rounded up to 3 whose jitter is the largest
\* it can be
C21_Witness ==
    /\ BackedOff /\ probe.retry_delay = 5 /\ probe.try_number = 1
    /\ probe.min_backoff = 3 /\ probe.modded_hash = 5

---------------------------------------------------------------------------
\* Claims about the readiness checks (checked under ReadySpec).

---------------------------------------------------------------------------
\* Claims about the mapped-index resolution (checked under MapSpec).

\* the groups around a group, itself included
Enclosing(groups, g) ==
    LET up(x) == IF x = "none" THEN "none" ELSE groups[x].parent_group
    IN  {g, up(g), up(up(g)), up(up(up(g)))} \ {"none"}

\* the mapped task groups the probe's task and its upstream share
SharedMappedGroups ==
    IF probe.task.dag # probe.upstream.dag THEN {}
    ELSE {g \in Enclosing(probe.groups, probe.task.task_group)
                \cap Enclosing(probe.groups, probe.upstream.task_group) :
              probe.groups[g].mapped}

\* the innermost of them
CommonGroup ==
    CHOOSE g \in SharedMappedGroups :
        \A other \in SharedMappedGroups : other \in Enclosing(probe.groups, g)

\* the instances of the common group: the product of its length and those of
\* the mapped groups around it
AncestorTiCount ==
    LET around == {g \in Enclosing(probe.groups, CommonGroup) : probe.groups[g].mapped}
        len(g) == IF g \in around THEN probe.groups[g].len ELSE 1
    IN  len("g1") * len("g2") * len("h")

\* the upstream is expanded again inside the common group
FurtherExpanded ==
    \/ probe.upstream.mapped
    \/ \E g \in Enclosing(probe.groups, probe.upstream.task_group) :
          /\ probe.groups[g].mapped
          /\ g # CommonGroup
          /\ CommonGroup \in Enclosing(probe.groups, g)

\* the result the claim states for a task that shares a group with its upstream
StatedSlice ==
    LET ancestor_index == (probe.map_index * AncestorTiCount) \div probe.ti_count
        further_count == probe.ti_count \div AncestorTiCount
    IN  IF FurtherExpanded
        THEN probe.result = [kind |-> "range", start |-> ancestor_index * further_count,
                             stop |-> ancestor_index * further_count + further_count]
        ELSE probe.result = [kind |-> "index", start |-> ancestor_index,
                             stop |-> ancestor_index + 1]

\* C23 as stated: the whole value when the task and the upstream share no
\* mapped task group; otherwise the single scaled index, or the range when
\* the upstream is further expanded.
C23_WholeValueOnlyWithoutSharedGroup ==
    probe.evaluated =>
        IF SharedMappedGroups = {}
        THEN probe.result = WholeValue
        ELSE probe.result # WholeValue /\ (probe.ti_count > 0 => StatedSlice)

\* C23 amended: the whole value when ti_count is None or 0 or when the task
\* and the upstream share no mapped task group; otherwise the single scaled
\* index, or the range when the upstream is further expanded.
C23_ScaledIndexOrRange ==
    probe.evaluated =>
        IF SharedMappedGroups = {} \/ probe.ti_count = NoCount \/ probe.ti_count = 0
        THEN probe.result = WholeValue
        ELSE StatedSlice

\* the sixth of six instances in a group expanded to two, whose upstream is
\* expanded by three inside the group: the range [3, 6)
C23_Witness ==
    /\ probe.evaluated /\ probe.ti_count = 6 /\ probe.map_index = 4
    /\ SharedMappedGroups # {} /\ AncestorTiCount = 2 /\ FurtherExpanded
    /\ probe.result = [kind |-> "range", start |-> 3, stop |-> 6]

\* the map indexes the resolution returned
ReturnedIndexes == probe.result.start..(probe.result.stop - 1)

\* the upstream's instances at the position of the probe in the common group
UpstreamAtOwnPosition ==
    LET upstream_count == expanded_ti_count(probe.groups, probe.upstream)
        position == probe.map_index \div (probe.ti_count \div AncestorTiCount)
    IN  {j \in 0..(upstream_count - 1) :
            j \div (upstream_count \div AncestorTiCount) = position}

---------------------------------------------------------------------------
\* Claims about one execution (checked under ExecSpec).

\* the position of an event in the trace of the execution, 0 when absent
Position(event) ==
    IF \E i \in 1..Len(probe.trace) : probe.trace[i] = event
    THEN CHOOSE i \in 1..Len(probe.trace) : probe.trace[i] = event
    ELSE 0

Resuming == probe.ti.next_method # NoMethod

\* C27: with an execution timeout configured the time left is
\* execution_timeout - (now - start_date) when resuming from a deferral and
\* execution_timeout otherwise; when none is left the attempt fails with the
\* timeout without execute being called, and the failure is not permanent.
C27_TimeoutFromStartDate ==
    probe.timed =>
        /\ probe.remaining =
               IF Resuming
               THEN probe.execution_timeout - (probe.at - probe.ti.start_date)
               ELSE probe.execution_timeout
        /\ probe.remaining <= 0 =>
               /\ probe.pc \in {"raised", "caught"}
               /\ probe.exception = "AirflowTaskTimeout"
               /\ probe.call = NoCall
               /\ Position("execute") = 0 /\ Position("resume_execution") = 0
               /\ probe.pc = "caught" =>
                      probe.kind \in NonPermanent /\ ~probe.force_fail

\* a resumed attempt whose timeout ran out while it was deferred
C27_Witness ==
    /\ probe.timed /\ Resuming /\ probe.at > probe.ti.start_date
    /\ probe.remaining <= 0
    /\ probe.pc = "caught" /\ probe.kind = "fail_airflow"

\* the number of on_kill calls of the execution
Kills == Cardinality({i \in 1..Len(probe.trace) : probe.trace[i] = "on_kill"})

\* C28: on SIGTERM the handler calls on_kill and raises the terminated outcome
\* only in the process that installed it; in a forked child it does neither.
C28_SignalOnlyInInstallingProcess ==
    /\ probe.signal = ParentPid =>
           /\ probe.pc \in {"raised", "caught"}
           /\ probe.exception = "AirflowTaskTerminated"
           /\ probe.trace = Append(probe.at_signal, "on_kill")
           /\ probe.exited = {}
    /\ probe.signal # ParentPid =>
           /\ probe.exception # "AirflowTaskTerminated"
           /\ Kills = IF probe.exception = "AirflowTaskTimeout" THEN 1 ELSE 0
    /\ probe.signal = ChildPid => probe.exited = {ChildPid}

\* a signal that reached a forked child during an execution that went on and
\* returned
C28_Witness ==
    /\ probe.signal = ChildPid /\ probe.pc = "returned"
    /\ Len(probe.trace) > Len(probe.at_signal)

\* C29: pre-execute hooks, then the on-execute callbacks, then the execute
\* call (resume_execution with the saved next_method and next_kwargs when
\* next_method is set), then the post-execute hooks; execute is not called
\* before the pre-execute hooks finished, the post-execute hooks run only
\* after the call returned normally.
C29_LifecycleOrder ==
    LET order == <<"_pre_execute_hook", "pre_execute", "on_execute_callback[0]",
                   "on_execute_callback[1]", probe.call.callable,
                   "_post_execute_hook", "post_execute">>
        called == Position(probe.call.callable) # 0
    IN  /\ \A i, j \in 1..Len(order) :
               i < j /\ Position(order[i]) # 0 /\ Position(order[j]) # 0
                   => Position(order[i]) < Position(order[j])
        /\ Position("execute") # 0 \/ Position("resume_execution") # 0
               => probe.call # NoCall /\ called
        /\ called =>
               /\ Position("pre_execute") # 0
               /\ probe.has_pre_execute_hook => Position("_pre_execute_hook") # 0
               /\ {"_pre_execute_hook", "pre_execute"} \cap probe.raising
                      \subseteq (IF probe.has_pre_execute_hook THEN {}
                                 ELSE {"_pre_execute_hook"})
               /\ Position("on_execute_callback[0]") # 0
               /\ Position("on_execute_callback[1]") # 0
               /\ IF Resuming
                  THEN /\ probe.call.callable = "resume_execution"
                       /\ probe.call.next_method = probe.ti.next_method
                       /\ probe.call.next_kwargs = probe.ti.next_kwargs
                  ELSE probe.call.callable = "execute"
        /\ Position("_post_execute_hook") # 0 \/ Position("post_execute") # 0 =>
               /\ called
               /\ "execute" \notin probe.raising
               /\ probe.exception # "AirflowTaskTimeout"
               /\ probe.trace[Position(probe.call.callable) + 1] # "on_kill"

\* a resumed execution that went through every step
C29_Witness ==
    /\ probe.pc = "returned" /\ Resuming /\ probe.has_pre_execute_hook
    /\ Position("_pre_execute_hook") = 1 /\ Position("resume_execution") = 6
    /\ Position("post_execute") = 8

---------------------------------------------------------------------------
\* Claims about callbacks that raise (checked under CallbackSpec).

\* in a record of calls, a callback that raised was logged and the rest of its
\* list was still called
LoggedAndContinued(calls, callbacks, raising) ==
    LET at(code) == IF \E i \in 1..Len(calls) : calls[i] = code
                    THEN CHOOSE i \in 1..Len(calls) : calls[i] = code
                    ELSE 0
    IN  /\ Len(callbacks) > 1 /\ at(callbacks[1]) # 0
               => at(callbacks[2]) > at(callbacks[1])
        /\ \A k \in 1..Len(callbacks) :
               at(callbacks[k]) # 0 =>
                   IF callbacks[k] \in raising
                   THEN /\ at(callbacks[k]) < Len(calls)
                        /\ calls[at(callbacks[k]) + 1] = "log.exception"
                   ELSE at(callbacks[k]) = Len(calls)
                        \/ calls[at(callbacks[k]) + 1] # "log.exception"

\* C30: an exception raised by an on-execute callback, by a success, failure,
\* retry or skip callback, or by a running, success or failed listener hook is
\* caught and logged: it does not leave the run, the rest of the list is still
\* called, and the transition is persisted as it is when no callback raises.
C30_CallbackErrorsContained ==
    /\ worker.pc # "crashed"
    /\ probe.pc \in {"raised", "caught"} =>
           /\ probe.exception = probe.execute_raises
           /\ probe.trace[Len(probe.trace)] = "execute"
    /\ LoggedAndContinued(probe.trace,
           <<"on_execute_callback[0]", "on_execute_callback[1]">>, worker.raising)
    /\ LoggedAndContinued(probe.trace, <<"on_task_instance_running">>, worker.raising)
    /\ \A name \in DOMAIN Callbacks :
           LoggedAndContinued(worker.called, Callbacks[name], worker.raising)
    /\ \A hook \in {"on_task_instance_success", "on_task_instance_failed"} :
           LoggedAndContinued(worker.called, <<hook>>, worker.raising)
    /\ Done =>
           /\ row = worker.after
           /\ ~worker.test_mode =>
                  /\ row = worker.ti
                  /\ row.end_date = worker.at
                  /\ row.state \in
                         CASE worker.outcome = "success" -> {"success"}
                           [] worker.outcome = "skip" -> {"skipped"}
                           [] worker.outcome = "fail_permanent" -> {"failed"}
                           [] OTHER -> {"failed", "up_for_retry"}
                  /\ Len(log) = 2
           /\ worker.test_mode /\ worker.outcome # "skip" => row = worker.found

\* a success persisted although the first on_success callback and the success
\* listener both raised
C30_Witness ==
    /\ Done /\ worker.outcome = "success" /\ ~worker.test_mode
    /\ worker.raising = {"on_success_callback[0]", "on_task_instance_success"}
    /\ row.state = "success"
    /\ Len(worker.called) = 5

---------------------------------------------------------------------------
\* Claims about publishing the returned value (checked under PushSpec).

\* a mapping was returned and all of its keys are strings
StringKeyed ==
    probe.result.kind = "mapping" /\ \A key \in probe.result.keys : key.is_str

\* the default return key and each key of the returned mapping
ReturnAndOwnKeys == {XCOM_RETURN_KEY} \cup {key.name : key \in probe.result.keys}

\* C25 as stated: with multiple outputs declared, a non-null value that is not
\* a mapping fails with the type error, a mapping with a non-string key with
\* the key error, and a mapping with only string keys is stored under the
\* return key and under each of its keys.
C25_MultipleOutputsContract ==
    probe.done /\ probe.multiple_outputs /\ probe.result.kind # "none" =>
        /\ probe.result.kind # "mapping" => probe.error = "expected dictionary"
        /\ probe.result.kind = "mapping" /\ ~StringKeyed
               => probe.error = "keys must be strings"
        /\ StringKeyed => probe.xcoms = ReturnAndOwnKeys

\* C25 amended: the same when the operator pushes its result (do_xcom_push),
\* the entries of a string-keyed mapping being stored unless recording the
\* task map then fails, which discards them.
C25_MultipleOutputsContractWhenPushing ==
    probe.done /\ probe.do_xcom_push /\ probe.multiple_outputs
               /\ probe.result.kind # "none" =>
        /\ probe.result.kind # "mapping"
               => probe.error = "expected dictionary" /\ probe.pushed = {}
        /\ probe.result.kind = "mapping" /\ ~StringKeyed
               => probe.error = "keys must be strings" /\ probe.pushed = {}
        /\ StringKeyed =>
               /\ probe.pushed = ReturnAndOwnKeys
               /\ probe.xcoms = IF probe.error = "" THEN ReturnAndOwnKeys ELSE {}
               /\ probe.error \in {"", "UnmappableXComLengthPushed"}

\* a mapping of two string keys stored under three keys
C25_Witness ==
    /\ probe.done /\ probe.do_xcom_push /\ probe.multiple_outputs
    /\ StringKeyed /\ probe.result.len = 2
    /\ Cardinality(probe.xcoms) = 3

\* the returned value reached _record_task_map_for_downstreams as a list or a
\* mapping, for a task that is not mapped and has a mapped dependant
PushedForMapping ==
    /\ probe.done /\ probe.do_xcom_push
    /\ ~probe.task_mapped /\ probe.mapped_dependants
    /\ probe.result.kind \in {"list", "mapping"}
    /\ probe.error \notin {"expected dictionary", "keys must be strings"}

\* C26: for a task that is not mapped and has a mapped dependant, a pushed
\* value longer than the maximum map length fails with the length error and
\* no task map is stored; a value at most that long stores a task map holding
\* exactly its length.
C26_TaskMapWithinMaxLength ==
    PushedForMapping =>
        IF probe.result.len > probe.max_map_length
        THEN probe.error = "UnmappableXComLengthPushed" /\ probe.task_map = NoCount
        ELSE probe.error = "" /\ probe.task_map = probe.result.len

\* a list one longer than the maximum refused
C26_Witness ==
    /\ PushedForMapping /\ probe.result.kind = "list"
    /\ probe.result.len = probe.max_map_length + 1
    /\ probe.error = "UnmappableXComLengthPushed"

---------------------------------------------------------------------------
\* Claims about the retry policy (checked under RetrySpec).

\* C7 as stated: is_eligible_to_retry is true exactly when the state is
\* restarting, or try_number <= max_tries and the task declares a nonzero
\* retry count.
C7_EligibleIffRetriesLeft ==
    probe.evaluated =>
        probe.result =
            (\/ probe.state = "restarting"
             \/ /\ probe.try_number <= probe.max_tries
                /\ probe.has_task /\ probe.retries # 0)

\* C7 amended: is_eligible_to_retry is true exactly when the state is
\* restarting, or try_number <= max_tries and the task either could not be
\* loaded or declares a nonzero retry count; with max_tries = 3 it is false for
\* try_number = 4 and, for a task with retries, true for try_number = 3; in
\* state restarting it is true for any counters.
C7_EligibleIffRetriesLeftOrNoTask ==
    probe.evaluated =>
        /\ probe.result =
            (\/ probe.state = "restarting"
             \/ /\ probe.try_number <= probe.max_tries
                /\ ~probe.has_task \/ probe.retries # 0)
        /\ probe.max_tries = 3 /\ probe.try_number = 4 /\ probe.state # "restarting"
            => ~probe.result
        /\ probe.max_tries = 3 /\ probe.try_number = 3 /\ probe.retries # 0
            => probe.result
        /\ probe.state = "restarting" => probe.result

\* the last try of a task with retries is eligible
C7_Witness ==
    /\ probe.evaluated /\ probe.result
    /\ probe.state = "running" /\ probe.has_task /\ probe.retries # 0
    /\ probe.max_tries = 3 /\ probe.try_number = 3

---------------------------------------------------------------------------
\* Claims about the transactions of failure handling (checked under RunSpec).

\* failure handling has attempted a side effect of the failure (the listener
\* hook is the first) and has not returned yet
Notifying == worker.pc \in {"fetched", "notified"}

\* fail-fast failed a running instance of the run through TaskInstance.error
SiblingErrored ==
    /\ worker.fail_fast /\ worker.ti.state = "failed"
    /\ worker.sibling_found.state = "running" /\ ~worker.sibling_found.is_teardown

\* the side effects of one failure, in the order they are attempted
FailureSideEffects ==
    <<"on_task_instance_failed">> \o
        IF worker.ti.state = "failed"
        THEN Callbacks.on_failure_callback
        ELSE Callbacks.on_retry_callback

Count(seq, x) == Cardinality({i \in 1..Len(seq) : seq[i] = x})

\* C32: each handled failure invokes the on_task_instance_failed listener hook
\* exactly once, whether the outcome is failed or up_for_retry, and outside
\* test mode appends exactly one audit log entry for the failure.
C32_OneHookOneLogEntry ==
    Handled =>
        /\ worker.ti.state \in {"failed", "up_for_retry"}
        /\ Count(worker.called, "on_task_instance_failed") = 1
        /\ ~worker.test_mode => Count(log, "failed") = 1

\* a failure that ends up_for_retry and one that ends failed differ only in
\* the callbacks: here the retry, with its hook and its log entry
C32_Witness ==
    /\ Handled /\ ~worker.test_mode
    /\ worker.ti.state = "up_for_retry"
    /\ Count(worker.called, "on_task_instance_failed") = 1
    /\ Count(log, "failed") = 1

---------------------------------------------------------------------------
\* Claims about the start date of an admitted attempt (checked under Spec).

\* the call admitted the instance to running
Admitted(c) == Returned(c) /\ callers[c].ret

\* the start_date C33 states for the instance the call found
StatedStartDate(c) ==
    IF callers[c].before.next_method # NoMethod
    THEN callers[c].before.start_date
    ELSE IF callers[c].before.state = "up_for_reschedule" /\ tr # <<>>
    THEN tr[1].start_date
    ELSE callers[c].at

\* C33 as stated: on admission to running the start_date is the instance's
\* existing start_date when it resumes from deferral (next_method set), the
\* start date of its earliest reschedule record when it was up_for_reschedule
\* and such a record exists, and the time of admission otherwise.
C33_StartDateOnAdmission ==
    \A c \in Callers : Admitted(c) =>
        callers[c].ti.start_date = StatedStartDate(c)

\* C33 amended: on admission to running without mark_success the start_date
\* is the instance's existing start_date when it resumes from deferral, the
\* start date of its earliest reschedule record when it was up_for_reschedule
\* and such a record exists, and the time of admission otherwise; an admission
\* with mark_success leaves the start_date as it was.  Outside test mode that
\* start_date is the one persisted.
C33_StartDateOnAdmissionUnlessMarked ==
    \A c \in Callers : Admitted(c) =>
        /\ callers[c].ti.start_date =
               IF callers[c].mark_success
               THEN callers[c].before.start_date
               ELSE StatedStartDate(c)
        /\ ~callers[c].test_mode =>
               callers[c].after.start_date = callers[c].ti.start_date

\* an instance waiting for a reschedule is admitted later than its first
\* reschedule record began
C33_Witness ==
    \E c \in Callers :
        /\ Admitted(c) /\ ~callers[c].mark_success /\ ~callers[c].test_mode
        /\ callers[c].before.state = "up_for_reschedule" /\ tr # <<>>
        /\ callers[c].at > tr[1].start_date
        /\ callers[c].after.start_date = tr[1].start_date

---------------------------------------------------------------------------
\* Claims about the transactions of a reschedule (checked under
\* RescheduleSpec).

\* _handle_reschedule committed the state update and has not written the
\* reschedule record: it is about to, or it raised
BetweenCommits ==
    worker.outcome = "reschedule" /\ worker.pc \in {"rescheduled", "crashed"}

\* the reschedule records written by this attempt
RescheduleRecords ==
    {i \in 1..Len(tr) : tr[i].reschedule_date = worker.request.reschedule_date}

\* C34: in handling a reschedule the state update to up_for_reschedule is
\* committed first, in its own transaction, and the reschedule record is
\* written in a second, separate transaction; a failure or crash between the
\* two leaves the state update committed.
C34_StateCommittedBeforeRecord ==
    /\ BetweenCommits =>
        /\ RescheduleRecords = {}
        /\ externals = 0 =>
            /\ row = worker.after
            /\ row.state = "up_for_reschedule"
    /\ Outcome("reschedule") /\ ~worker.test_mode =>
        /\ Cardinality(RescheduleRecords) = 1
        /\ externals = 0 =>
            /\ row = worker.after
            /\ row.state = "up_for_reschedule"

\* the record could not be written: the instance stays up_for_reschedule
\* without a reschedule record
C34_Witness ==
    /\ worker.outcome = "reschedule" /\ worker.pc = "crashed"
    /\ externals = 0
    /\ row.state = "up_for_reschedule"
    /\ tr = <<>>

---------------------------------------------------------------------------
\* Claims about the state _run_raw_task leaves (checked under OutcomeSpec).

\* _run_raw_task returned or raised
Left == worker.pc \in {"done", "crashed"}

\* the states an outcome of the attempt persists
OutcomeStates ==
    {"success", "skipped", "deferred", "up_for_reschedule", "up_for_retry", "failed"}

ClearedOnceRescheduled ==
    /\ worker.outcome = "reschedule"
    /\ cleared.done /\ cleared.before.state # "running"
    /\ row.state = "none"

---------------------------------------------------------------------------
\* Claims about TaskInstance.run (checked under TaskRunSpec).

\* _run_raw_task was entered: the task body, its hooks and the outcome
\* handling run from here on
RawTaskEntered == worker.pc \notin {"idle", "returned"}

\* C36: in run(), the task body and its lifecycle hooks execute only if the
\* preceding check_and_change_state_before_execution returned True; when it
\* returns False nothing is executed, no callback runs and no outcome state
\* is written.
C36_RunsOnlyWhenAdmitted ==
    /\ RawTaskEntered => Admitted(1)
    /\ Returned(1) /\ ~callers[1].ret =>
        /\ ~RawTaskEntered
        /\ worker.called = <<>> /\ worker.events = <<>>
        /\ row = callers[1].after
        /\ log = <<>> /\ xcom = {} /\ history = {} /\ triggers = 0

\* run() returned for an instance whose dependencies were not met
C36_Witness ==
    /\ Returned(1) /\ ~callers[1].ret /\ ~callers[1].mark_success
    /\ worker.pc = "returned"
    /\ row = callers[1].after

---------------------------------------------------------------------------
\* Claims about the number of attempts (checked under AttemptsFairSpec).

\* the number of times the instance entered up_for_retry: each entry archives
\* the attempt's try_id
RetriesEntered == Cardinality(history)

\* the number of attempts the scheduler queued
AttemptsQueued == row.try_number

\* up_for_retry is entered at most `retries` times and the instance is failed
\* after retries + 1 attempts
AttemptsBounded ==
    /\ RetriesEntered <= worker.retries
    /\ AttemptsQueued <= worker.retries + 1
    /\ row.state = "up_for_retry" => AttemptsQueued = RetriesEntered
    /\ row.state = "failed" =>
        /\ AttemptsQueued = worker.retries + 1
        /\ RetriesEntered = worker.retries

\* C37: assuming the scheduler increments try_number by one each time it
\* queues an attempt and the instance is not cleared, an instance whose every
\* attempt fails non-permanently eventually reaches failed: up_for_retry is
\* entered at most `retries` times, so the instance is failed after
\* retries + 1 attempts.
C37_FailedAfterRetries == []AttemptsBounded /\ <>(row.state = "failed")

\* a task with retries failed on its last attempt
C37_Witness ==
    /\ row.state = "failed" /\ worker.pc = "done"
    /\ worker.retries > 0
    /\ AttemptsQueued = worker.retries + 1
    /\ RetriesEntered = worker.retries

---------------------------------------------------------------------------
\* Claims about a failed publication of the result (checked under PushSpec).

\* the errors of the checks made before any xcom_push
RefusedBeforePush == {"expected dictionary", "keys must be strings"}

\* the errors of _record_task_map_for_downstreams
RefusedForMapping ==
    {"XComForMappingNotPushed", "UnmappableXComTypePushed", "UnmappableXComLengthPushed"}

\* C38: if result propagation fails (non-mapping value, non-string key,
\* missing or unmappable value for a mapped dependant, or length exceeded),
\* none of the attempt's result entries and no map-summary record remain
\* persisted: the key check precedes every per-key push, and all pushes share
\* one transaction that is rolled back on the error.
C38_FailedPushLeavesNothing ==
    probe.done /\ probe.error # "" =>
        /\ probe.error \in RefusedBeforePush \cup RefusedForMapping
        /\ probe.error \in RefusedBeforePush => probe.pushed = {}
        /\ probe.xcoms = {}
        /\ probe.task_map = NoCount

\* a mapping pushed key by key and then found too long for the mapped
\* dependant: its entries are rolled back
C38_Witness ==
    /\ probe.done /\ probe.error = "UnmappableXComLengthPushed"
    /\ probe.multiple_outputs
    /\ Cardinality(probe.pushed) = MaxMapLength + 2
    /\ probe.xcoms = {} /\ probe.task_map = NoCount

---------------------------------------------------------------------------
\* Claims about the order of the success tail (checked under OutcomeSpec).

\* every on_success callback of the task was called
SuccessCallbacksRun ==
    \A k \in 1..Len(Callbacks.on_success_callback) :
        Count(worker.called, Callbacks.on_success_callback[k]) = 1

\* C39: on success the on_success callbacks are run before the success state
\* is committed to the store, so no observer of the store sees state success
\* for the instance while its success callbacks have not yet been run.
C39_CallbacksBeforeSuccessCommitted ==
    /\ row.state = "success" /\ externals = 0 =>
        /\ SuccessCallbacksRun
        /\ Outcome("success")
    /\ worker.pc = "succeeded" =>
        /\ SuccessCallbacksRun
        /\ externals = 0 /\ ~worker.test_mode => row.state = "running"

\* the callbacks have run and the store still shows the instance running
C39_Witness ==
    /\ worker.pc = "succeeded" /\ ~worker.test_mode
    /\ SuccessCallbacksRun
    /\ row.state = "running" /\ worker.ti.state = "success"

---------------------------------------------------------------------------
\* Claims about test mode (checked under OutcomeSpec).

\* a step of the outcome handling of _run_raw_task: the worker moves on from
\* a position after the start of the attempt
OutcomeHandlingStep == worker.pc # "idle" /\ worker'.pc # worker.pc

\* C40: with test_mode set, _run_raw_task does not record the attempt's
\* outcome in the store: for a successful, skipped, rescheduled, deferred or
\* failed attempt the persisted state and the audit log are the same after
\* the outcome handling as before it.
C40_TestModeRecordsNothing ==
    [][worker.test_mode /\ OutcomeHandlingStep =>
           row'.state = row.state /\ log' = log]_vars

\* the same for the outcomes decided by the tail and by the handlers that test
\* test_mode themselves: success, reschedule and failure
TestModeRecordsNoSuccessOrFailure ==
    [][/\ worker.test_mode /\ OutcomeHandlingStep
       /\ worker'.outcome \notin {"skip", "defer"}
       => row'.state = row.state /\ log' = log]_vars

====
